---- MODULE Spec2Model ----
(***************************************************************************)
(* Series aggregation and cache-consistency engine of the AI service:      *)
(* CumulativeQuizService (cumulative-quiz.service.ts) together with the    *)
(* HTTP handlers of index.ts that touch the same tables and cache keys.    *)
(*                                                                         *)
(* Every `await` of the service is a point where another request may run,  *)
(* so generateCumulativeQuiz is a process with one action per awaited      *)
(* step.  Tables of the durable store are variables; the tables owned by   *)
(* the video portal (all_events) change through environment actions.       *)
(***************************************************************************)
EXTENDS Integers, Sequences, FiniteSets, TLC

\* ---------------------------------------------------------------- bounds
\* number of changes to all_events / ai_quizzes made by other requests
MaxChanges == 1
\* processingTimeMs ranges over 0..MaxTime
MaxTime == 1
\* number of generateCumulativeQuiz requests served one after the other
MaxCalls == 2
\* number of generateCumulativeQuiz requests served when requests overlap
MaxOverlappingCalls == 3
\* the longest TTL, in seconds, the client of the cache gives to set
MaxTtl == 2
\* bulk series generation requests
MaxRuns == 1

\* ------------------------------------------------------------- constants
\* ELSE 999999 in the ORDER BY of the position query
DefaultOrder == 999999
\* TTL passed to cache.set for cumulative quizzes (7 days)
CumulativeTtl == 604800
\* cache.set without a TTL: CACHE_TTL_SECONDS, 3600 by default
CacheTtlSeconds == 3600
\* series IS NULL
NoSeries == 0

\* ids of the rows of all_events ("10" sorts before "2" as a string)
EventIds == {2, 3, 10}
\* the videos cumulative quizzes are requested for
Anchors == {3, 10}
SeriesIds == {1, 2}
Languages == {"en"}
Procs == {"p1", "p2"}
\* values of metadata->'http://ethz.ch/video/metadata'->>'order'; <<>> is NULL
OrderHints == {<<>>, <<1>>, <<2>>}

\* --------------------------------------------------------------- helpers
Range(s) == {s[i] : i \in DOMAIN s}

\* e.id of every row (currentEvents.map(e => e.id))
Ids(rows) == [i \in DOMAIN rows |-> rows[i].id]

\* decimal digits of a non-negative id, most significant first
RECURSIVE Digits(_)
Digits(n) == IF n < 10 THEN <<n>> ELSE Append(Digits(n \div 10), n % 10)

\* a < b in the order Array.prototype.sort() uses by default: the elements
\* are compared as strings, code unit by code unit
RECURSIVE SeqLess(_, _)
SeqLess(a, b) ==
    IF a = <<>> THEN b # <<>>
    ELSE IF b = <<>> THEN FALSE
    ELSE IF Head(a) # Head(b) THEN Head(a) < Head(b)
    ELSE SeqLess(Tail(a), Tail(b))

StringLess(x, y) == SeqLess(Digits(x), Digits(y))

RECURSIVE InsertSorted(_, _)
InsertSorted(x, s) ==
    IF s = <<>> THEN <<x>>
    ELSE IF StringLess(x, Head(s)) THEN <<x>> \o s
    ELSE <<Head(s)>> \o InsertSorted(x, Tail(s))

\* ids.sort()
RECURSIVE SortIds(_)
SortIds(s) == IF s = <<>> THEN <<>> ELSE InsertSorted(Head(s), SortIds(Tail(s)))

\* ------------------------------------------------------------ data model
\* a row of all_events (table of the video portal)
EventRow(id, title, series, state, order, created) ==
    [id |-> id, title |-> title, series |-> series, state |-> state,
     order |-> order, created |-> created]

\* a question as stored in ai_quizzes.quiz_data.questions; <<>> is a field
\* that is not there
Question(text, camel, snake, ts, difficulty) ==
    [question |-> text, correctAnswer |-> camel, correct_answer |-> snake,
     timestamp |-> ts, difficulty |-> difficulty]

QuizA == [questions |-> << Question("a1", <<1>>, <<>>, <<30>>, "hard"),
                           Question("a2", <<>>, <<0>>, <<0>>, "easy") >>]
QuizB == [questions |-> << Question("b1", <<>>, <<>>, <<>>, "medium"),
                           Question("b2", <<2>>, <<3>>, <<7>>, "easy") >>]
QuizPool == {QuizA, QuizB}
QuizC == [questions |-> << Question("c1", <<0>>, <<>>, <<>>, "easy"),
                           Question("c2", <<>>, <<3>>, <<12>>, "hard"),
                           Question("c3", <<2>>, <<>>, <<5>>, "medium") >>]

\* String(x) for the answer values that occur
String(n) == <<"0", "1", "2", "3">>[n + 1]

\* process.env.DEFAULT_MODEL || 'gpt-4'
DefaultModel == "gpt-4"

\* `cumulative_quiz:${eventId}:${language}`
CumulativeKey(eventId, language) == <<"cumulative_quiz", eventId, language>>
\* `quiz:${eventId}:${language}`
QuizKey(eventId, language) == <<"quiz", eventId, language>>
\* the keys of the videos and of 7, an id of no video
CacheKeys == {CumulativeKey(e, l) : e \in EventIds \cup {7}, l \in Languages}
                \cup {QuizKey(e, l) : e \in EventIds, l \in Languages}

VARIABLES
    events,       \* all_events, in the enumeration order of its rows
    quizzes,      \* ai_quizzes: (event_id, language) -> <<quiz_data>> or <<>>
    cumulative,   \* ai_cumulative_quizzes: set of rows
    cache,        \* fast cache: key -> <<value>> or <<>>
    changes,      \* number of changes to all_events / ai_quizzes so far
    calls,        \* number of generateCumulativeQuiz requests so far
    pc,           \* position of each generateCumulativeQuiz call
    req,          \* its arguments, the value of `changes` when it started, its
                  \* number and the numbers of the calls in progress then
    cached,       \* local `cached` (getCachedQuiz result), <<>> is null
    validation,   \* what isCacheValid saw and returned in the latest call
    seriesId,     \* local `seriesId`
    seriesEvents, \* local `seriesEvents`
    individual,   \* results of the per-event quiz fetches that have resolved
    quiz,         \* local `quiz`, <<>> before it is built
    outcome,      \* the last response of each connection and its request
    eligibility,  \* the checkEligibility call: position, arguments, locals and
                  \* the result it returned last
    bulk,         \* the bulk series generation request: position, arguments,
                  \* locals and the response it sent last
    lastSet,      \* per cache key, what the latest set of the cache's client
                  \* gave, the seconds since, and whether the client has
                  \* invalidated or cleared it since
    transcripts,  \* video_transcripts: (event_id, language) -> <<row>> or <<>>
    extraction    \* the extractForEvent call: position, arguments, locals and
                  \* what it returned last

vars == <<events, quizzes, cumulative, cache, changes, calls, pc, req, cached,
          validation, seriesId, seriesEvents, individual, quiz, outcome, eligibility,
          bulk, lastSet, transcripts, extraction>>

dbVars == <<events, quizzes, cumulative>>
envVars == <<events, quizzes, changes>>
localVars == <<cached, seriesId, seriesEvents, individual, quiz>>

\* ------------------------------------------------- Series Position Resolver
\* CASE WHEN ...->>'order' IS NOT NULL THEN (...)::int ELSE 999999 END
OrderKey(row) == IF row.order = <<>> THEN DefaultOrder ELSE row.order[1]

\* ORDER BY OrderKey, created over the rows i, j of ev; rows that tie on both
\* keep the enumeration order of the table
RowPrecedes(ev, i, j) ==
    \/ OrderKey(ev[i]) < OrderKey(ev[j])
    \/ /\ OrderKey(ev[i]) = OrderKey(ev[j])
       /\ \/ ev[i].created < ev[j].created
          \/ ev[i].created = ev[j].created /\ i < j

\* the CTE ordered_events: WHERE series = $1 AND state = 'ready', with
\* ROW_NUMBER() as position
OrderedEvents(ev, series) ==
    LET members == {i \in DOMAIN ev : ev[i].series = series /\ ev[i].state = "ready"}
        rowNumber(i) == 1 + Cardinality({j \in members : RowPrecedes(ev, j, i)})
    IN  [k \in 1..Cardinality(members) |->
            LET i == CHOOSE m \in members : rowNumber(m) = k
            IN  [id |-> ev[i].id, title |-> ev[i].title, position |-> k]]

\* GetSeriesEventsUpTo without WHERE e.position <= t.position
GetSeriesEventsNotTruncated(ev, series, upToEventId) ==
    LET ordered == OrderedEvents(ev, series)
        target == {k \in DOMAIN ordered : ordered[k].id = upToEventId}
    IN  IF target = {} THEN <<>> ELSE ordered

\* GetSeriesEventsUpTo with e.position < t.position
GetSeriesEventsBefore(ev, series, upToEventId) ==
    LET ordered == OrderedEvents(ev, series)
        target == {k \in DOMAIN ordered : ordered[k].id = upToEventId}
    IN  IF target = {} THEN <<>>
        ELSE [k \in 1..((CHOOSE t \in target : TRUE) - 1) |-> ordered[k]]

\* getSeriesEventsUpTo: rows with position <= the position of upToEventId,
\* none when upToEventId is not in ordered_events
GetSeriesEventsUpTo(ev, series, upToEventId) ==
    LET ordered == OrderedEvents(ev, series)
        target == {k \in DOMAIN ordered : ordered[k].id = upToEventId}
    IN  IF target = {} THEN <<>>
        ELSE SubSeq(ordered, 1, CHOOSE k \in target : TRUE)

\* ------------------------------------------------------------ Quiz Combiner
\* q.correctAnswer ?? q.correct_answer
CorrectAnswerOf(q) == IF q.correctAnswer # <<>> THEN q.correctAnswer ELSE q.correct_answer

\* CombinedQuestion numbering the videos from 0
CombinedQuestionFromZero(q, event) ==
    [question |-> q.question,
     correctAnswer |-> String(CorrectAnswerOf(q)[1]),
     difficulty |-> q.difficulty,
     videoContext |->
        [eventId |-> event.id, videoTitle |-> event.title,
         videoNumber |-> event.position - 1,
         timestamp |-> IF q.timestamp # <<>> /\ q.timestamp[1] # 0
                       THEN q.timestamp ELSE <<>>]]

\* the combined question pushed for q of the event at `event`
CombinedQuestion(q, event) ==
    [question |-> q.question,
     correctAnswer |-> String(CorrectAnswerOf(q)[1]),
     difficulty |-> q.difficulty,
     videoContext |->
        [eventId |-> event.id, videoTitle |-> event.title,
         videoNumber |-> event.position,
         \* q.timestamp ? Number(q.timestamp) : undefined
         timestamp |-> IF q.timestamp # <<>> /\ q.timestamp[1] # 0
                       THEN q.timestamp ELSE <<>>]]

\* CombineQuestions looking at correctAnswer only
RECURSIVE CombineQuestionsCamelOnly(_, _)
CombineQuestionsCamelOnly(qs, event) ==
    IF qs = <<>> THEN <<>>
    ELSE IF Head(qs).correctAnswer = <<>>
         THEN CombineQuestionsCamelOnly(Tail(qs), event)
         ELSE <<CombinedQuestion(Head(qs), event)>> \o CombineQuestionsCamelOnly(Tail(qs), event)

RECURSIVE CombineQuestions(_, _)
CombineQuestions(qs, event) ==
    IF qs = <<>> THEN <<>>
    ELSE IF CorrectAnswerOf(Head(qs)) = <<>>
         THEN CombineQuestions(Tail(qs), event)
         ELSE <<CombinedQuestion(Head(qs), event)>> \o CombineQuestions(Tail(qs), event)

\* CombineQuizzes with the questions of a later event before those of an
\* earlier one
RECURSIVE CombineQuizzesLatestFirst(_, _)
CombineQuizzesLatestFirst(qz, evs) ==
    IF qz = <<>> THEN <<>>
    ELSE CombineQuizzesLatestFirst(Tail(qz), Tail(evs))
            \o CombineQuestions(Head(qz).questions, Head(evs))

\* CombineQuizzes taking the questions of the last event only
CombineQuizzesAnchorOnly(qz, evs) ==
    IF qz = <<>> THEN <<>>
    ELSE CombineQuestions(qz[Len(qz)].questions, evs[Len(evs)])

\* combineQuizzes(quizzes, events): quizzes[i] belongs to events[i]
RECURSIVE CombineQuizzes(_, _)
CombineQuizzes(qz, evs) ==
    IF qz = <<>> THEN <<>>
    ELSE CombineQuestions(Head(qz).questions, Head(evs)) \o CombineQuizzes(Tail(qz), Tail(evs))

\* getOrGenerateIndividualQuiz: the stored questions, or none
IndividualQuiz(qt, eventId, language) ==
    IF qt[<<eventId, language>>] # <<>>
    THEN [eventId |-> eventId, questions |-> qt[<<eventId, language>>][1].questions]
    ELSE [eventId |-> eventId, questions |-> <<>>]

\* ------------------------------------------------- Cache Consistency Guard
\* SameEvents with a check that only looks for the stored ids among the
\* current ones
SameEventsSubset(currentEvents, q) ==
    Range(q.includedEventIds) \subseteq Range(Ids(currentEvents))

\* SameEvents with the stored ids left unsorted
SameEventsOneSideSorted(currentEvents, q) ==
    SortIds(Ids(currentEvents)) = q.includedEventIds

\* SameEvents that also compares the stored questions with the questions the
\* individual quizzes would give now
SameEventsAndQuestions(currentEvents, q) ==
    /\ SortIds(Ids(currentEvents)) = SortIds(q.includedEventIds)
    /\ q.questions =
          CombineQuizzes([i \in DOMAIN currentEvents |->
                             IndividualQuiz(quizzes, currentEvents[i].id, q.language)],
                         currentEvents)

\* SameEvents comparing the ids in resolver order, unsorted
SameEventsInOrder(currentEvents, q) ==
    Ids(currentEvents) = q.includedEventIds

\* the comparison of isCacheValid, given the rows the resolver returned
SameEvents(currentEvents, q) ==
    SortIds(Ids(currentEvents)) = SortIds(q.includedEventIds)

\* isCacheValid(q) when the resolver query succeeds
IsCacheValid(ev, q) == SameEvents(GetSeriesEventsUpTo(ev, q.seriesId, q.eventId), q)

\* ------------------------------------------------------------ durable store
CumulativeRows(tbl, eventId, language) ==
    {r \in tbl : r.event_id = eventId /\ r.language = language}

\* UpsertCumulative without ON CONFLICT: every save inserts a row
InsertCumulative(tbl, q) ==
    tbl \cup {[event_id |-> q.eventId, series_id |-> q.seriesId,
               language |-> q.language, model |-> q.model,
               processing_time_ms |-> q.processingTimeMs,
               questions |-> q.questions,
               included_event_ids |-> q.includedEventIds,
               video_count |-> q.videoCount]}

\* UpsertCumulative with included_event_ids missing from DO UPDATE SET
UpsertKeepsMembers(tbl, q) ==
    LET old == CumulativeRows(tbl, q.eventId, q.language)
    IN  IF old = {} THEN InsertCumulative(tbl, q)
        ELSE (tbl \ old) \cup
             {[r EXCEPT !.questions = q.questions,
                        !.video_count = q.videoCount,
                        !.processing_time_ms = q.processingTimeMs] : r \in old}

\* UpsertCumulative that appends the new questions to the stored ones
UpsertAppendsQuestions(tbl, q) ==
    LET old == CumulativeRows(tbl, q.eventId, q.language)
    IN  IF old = {} THEN InsertCumulative(tbl, q)
        ELSE (tbl \ old) \cup
             {[r EXCEPT !.questions = r.questions \o q.questions,
                        !.included_event_ids = q.includedEventIds,
                        !.video_count = q.videoCount,
                        !.processing_time_ms = q.processingTimeMs] : r \in old}

\* INSERT ... ON CONFLICT (event_id, language) DO UPDATE SET questions,
\* included_event_ids, video_count, processing_time_ms
UpsertCumulative(tbl, q) ==
    LET old == CumulativeRows(tbl, q.eventId, q.language)
    IN  IF old = {}
        THEN tbl \cup {[event_id |-> q.eventId, series_id |-> q.seriesId,
                        language |-> q.language, model |-> q.model,
                        processing_time_ms |-> q.processingTimeMs,
                        questions |-> q.questions,
                        included_event_ids |-> q.includedEventIds,
                        video_count |-> q.videoCount]}
        ELSE (tbl \ old) \cup
             {[r EXCEPT !.questions = q.questions,
                        !.included_event_ids = q.includedEventIds,
                        !.video_count = q.videoCount,
                        !.processing_time_ms = q.processingTimeMs] : r \in old}

\* the CumulativeQuiz object getCachedQuiz builds from a row
QuizOfRow(row) ==
    [eventId |-> row.event_id, seriesId |-> row.series_id,
     language |-> row.language, model |-> row.model,
     questions |-> row.questions, includedEventIds |-> row.included_event_ids,
     videoCount |-> row.video_count, processingTimeMs |-> row.processing_time_ms]

\* --------------------------------------------------------------- fast cache
\* cache.get(key): the value, or <<>> for null
CacheGet(c, key) == IF c[key] = <<>> THEN <<>> ELSE <<c[key][1].value>>

\* cache.set(key, value, ttl)
CacheSet(c, key, value, ttl) == [c EXCEPT ![key] = <<[value |-> value, ttl |-> ttl]>>]

\* CacheInvalidate that leaves the entry
CacheInvalidateKeeps(c, key) == c

\* cache.invalidate(key)
CacheInvalidate(c, key) == [c EXCEPT ![key] = <<>>]

\* cache.clear()
CacheClear(c) == [k \in DOMAIN c |-> <<>>]

\* one second passes: an entry whose TTL has then elapsed is gone, the others
\* have a second less to live
CacheTick(c) ==
    [k \in DOMAIN c |->
        IF c[k] = <<>> \/ c[k][1].ttl <= 1 THEN <<>>
        ELSE <<[c[k][1] EXCEPT !.ttl = @ - 1]>>]

\* ---------------------------------------------------------------- initially
NoRequest == [eventId |-> 0, language |-> "en", forceRegenerate |-> FALSE,
              epoch |-> 0, seq |-> 0, inFlight |-> {}]
NoValidation == [ran |-> FALSE, failed |-> FALSE, currentEventIds |-> <<>>, valid |-> FALSE]
NoOutcome == [kind |-> "none", quiz |-> <<>>, error |-> "", request |-> NoRequest]
NoEligibility == [pc |-> "idle", eventId |-> 0, language |-> "en", epoch |-> 0,
                  seriesId |-> NoSeries, allSeriesVideos |-> <<>>, result |-> <<>>]
NoBulk == [pc |-> "idle", runs |-> 0, seriesId |-> NoSeries, language |-> "en",
           contentTypes |-> {}, forceRegenerate |-> FALSE, quizEnabled |-> FALSE,
           videos |-> <<>>, i |-> 0, videosWithQuizzes |-> <<>>,
           existing |-> FALSE, operations |-> <<>>, results |-> <<>>, status |-> 0]

NoTranscripts == [k \in EventIds \X Languages |-> <<>>]
NoExtraction == [pc |-> "idle", eventId |-> 0, language |-> <<>>,
                 eventTextCaption |-> <<>>, parsed |-> <<>>, storeError |-> FALSE,
                 thrown |-> FALSE, result |-> <<>>]

Init ==
    /\ events = << EventRow(2, "A", 1, "ready", <<1>>, 1),
                   EventRow(10, "B", 1, "ready", <<>>, 1),
                   EventRow(3, "C", 1, "waiting", <<2>>, 0) >>
    /\ quizzes = [k \in EventIds \X Languages |->
                    IF k[1] = 2 THEN <<QuizA>> ELSE IF k[1] = 10 THEN <<QuizB>> ELSE <<>>]
    /\ cumulative = {}
    /\ cache = [k \in CacheKeys |-> <<>>]
    /\ changes = 0
    /\ calls = 0
    /\ pc = [p \in Procs |-> "idle"]
    /\ req = [p \in Procs |-> NoRequest]
    /\ cached = [p \in Procs |-> <<>>]
    /\ validation = [p \in Procs |-> NoValidation]
    /\ seriesId = [p \in Procs |-> NoSeries]
    /\ seriesEvents = [p \in Procs |-> <<>>]
    /\ individual = [p \in Procs |-> <<>>]
    /\ quiz = [p \in Procs |-> <<>>]
    /\ outcome = [p \in Procs |-> NoOutcome]
    /\ eligibility = NoEligibility
    /\ bulk = NoBulk
    /\ lastSet = [k \in CacheKeys |-> <<>>]
    /\ transcripts = NoTranscripts
    /\ extraction = NoExtraction

\* ------------------------------------------------- generateCumulativeQuiz
Key(p) == CumulativeKey(req[p].eventId, req[p].language)

\* the call moves on to its next awaited step
Goto(p, label) ==
    /\ pc' = [pc EXCEPT ![p] = label]
    /\ UNCHANGED outcome

\* the call ends (return or throw): its locals are gone, the response stays
Finish(p, result) ==
    /\ pc' = [pc EXCEPT ![p] = "idle"]
    /\ outcome' = [outcome EXCEPT ![p] = result]
    /\ cached' = [cached EXCEPT ![p] = <<>>]
    /\ seriesId' = [seriesId EXCEPT ![p] = NoSeries]
    /\ seriesEvents' = [seriesEvents EXCEPT ![p] = <<>>]
    /\ individual' = [individual EXCEPT ![p] = <<>>]
    /\ quiz' = [quiz EXCEPT ![p] = <<>>]

Throw(p, message) ==
    Finish(p, [kind |-> "error", quiz |-> <<>>, error |-> message, request |-> req[p]])

\* generateCumulativeQuiz(eventId, language, forceRegenerate) is called and
\* runs to its first await
Begin(p, eventId, language, force) ==
    /\ pc[p] = "idle"
    /\ calls' = calls + 1
    /\ req' = [req EXCEPT ![p] =
                  [eventId |-> eventId, language |-> language,
                   forceRegenerate |-> force, epoch |-> changes,
                   seq |-> calls + 1,
                   inFlight |-> {req[q].seq : q \in {c \in Procs : pc[c] # "idle"}}]]
    /\ pc' = [pc EXCEPT ![p] = IF force THEN "eventQuery" ELSE "cacheGet"]
    /\ validation' = [validation EXCEPT ![p] = NoValidation]

\* a request arrives: POST /api/cumulative-quizzes/generate/:eventId
Start(p, eventId, language, force) ==
    /\ Begin(p, eventId, language, force)
    /\ UNCHANGED <<dbVars, cache, changes, localVars, outcome, eligibility, bulk, lastSet, transcripts, extraction>>

\* getCachedQuiz, memory cache: await this.cache.get(cacheKey)
GetCachedFromCache(p) ==
    /\ pc[p] = "cacheGet"
    /\ LET hit == CacheGet(cache, Key(p))
       IN  IF hit # <<>>
           THEN /\ cached' = [cached EXCEPT ![p] = hit]
                /\ Goto(p, "validate")
           ELSE /\ Goto(p, "dbGet")
                /\ UNCHANGED cached
    /\ UNCHANGED <<dbVars, cache, changes, calls, eligibility, bulk, lastSet, req, validation, seriesId,
                   seriesEvents, individual, quiz, transcripts, extraction>>

\* getCachedQuiz, database: SELECT ... FROM ai_cumulative_quizzes
GetCachedFromDb(p) ==
    /\ pc[p] = "dbGet"
    /\ \E fail \in BOOLEAN :
          IF fail
          THEN Throw(p, "query failed")
          ELSE LET rows == CumulativeRows(cumulative, req[p].eventId, req[p].language)
               IN  /\ IF rows # {}
                      THEN /\ cached' = [cached EXCEPT ![p] = <<QuizOfRow(CHOOSE r \in rows : TRUE)>>]
                           /\ Goto(p, "reCache")
                      ELSE /\ Goto(p, "eventQuery")
                           /\ UNCHANGED cached
                   /\ UNCHANGED <<seriesId, seriesEvents, individual, quiz>>
    /\ UNCHANGED <<dbVars, cache, changes, calls, eligibility, bulk, lastSet, req, validation, transcripts, extraction>>

\* getCachedQuiz, re-cache: await this.cache.set(cacheKey, quiz, 604800)
ReCache(p) ==
    /\ pc[p] = "reCache"
    /\ cache' = CacheSet(cache, Key(p), cached[p][1], CumulativeTtl)
    /\ Goto(p, "validate")
    /\ UNCHANGED <<dbVars, changes, calls, eligibility, bulk, lastSet, req, validation, localVars, transcripts, extraction>>

\* ValidateResult with a catch block that returns true
ValidateResultFailOpen(currentEvents, q, failed) ==
    IF failed
    THEN [ran |-> TRUE, failed |-> TRUE, currentEventIds |-> <<>>, valid |-> TRUE]
    ELSE [ran |-> TRUE, failed |-> FALSE, currentEventIds |-> Ids(currentEvents),
          valid |-> SameEvents(currentEvents, q)]

\* isCacheValid(q): the catch block turns an error of the resolver query
\* into false
ValidateResult(currentEvents, q, failed) ==
    IF failed
    THEN [ran |-> TRUE, failed |-> TRUE, currentEventIds |-> <<>>, valid |-> FALSE]
    ELSE [ran |-> TRUE, failed |-> FALSE, currentEventIds |-> Ids(currentEvents),
          valid |-> SameEvents(currentEvents, q)]

\* if (cached && await this.isCacheValid(cached)) return cached;
Validate(p) ==
    /\ pc[p] = "validate"
    /\ \E fail \in BOOLEAN :
          LET q == cached[p][1]
              v == ValidateResult(GetSeriesEventsUpTo(events, q.seriesId, q.eventId), q, fail)
          IN  /\ validation' = [validation EXCEPT ![p] = v]
              /\ IF v.valid
                 THEN Finish(p, [kind |-> "cached", quiz |-> <<q>>, error |-> "", request |-> req[p]])
                 ELSE /\ Goto(p, "eventQuery")
                      /\ UNCHANGED <<cached, seriesId, seriesEvents, individual, quiz>>
    /\ UNCHANGED <<dbVars, cache, changes, calls, eligibility, bulk, lastSet, req, transcripts, extraction>>

\* EventQuery without the condition on state
EventQueryAnyState(p) ==
    /\ pc[p] = "eventQuery"
    /\ \E fail \in BOOLEAN :
          IF fail
          THEN Throw(p, "query failed")
          ELSE LET rows == {i \in DOMAIN events :
                               /\ events[i].id = req[p].eventId
                               /\ events[i].series # NoSeries}
               IN  IF rows = {}
                   THEN Throw(p, "Event not found or not part of a series")
                   ELSE /\ seriesId' = [seriesId EXCEPT ![p] = events[CHOOSE i \in rows : TRUE].series]
                        /\ Goto(p, "resolve")
                        /\ UNCHANGED <<cached, seriesEvents, individual, quiz>>
    /\ UNCHANGED <<dbVars, cache, changes, calls, eligibility, bulk, lastSet, req, validation, transcripts, extraction>>

\* EventQuery that refuses an anchor without a quiz of its own
EventQueryChecksQuiz(p) ==
    /\ pc[p] = "eventQuery"
    /\ \E fail \in BOOLEAN :
          IF fail
          THEN Throw(p, "query failed")
          ELSE LET rows == {i \in DOMAIN events :
                               /\ events[i].id = req[p].eventId
                               /\ events[i].series # NoSeries
                               /\ events[i].state = "ready"}
               IN  IF rows = {}
                   THEN Throw(p, "Event not found or not part of a series")
                   ELSE IF quizzes[<<req[p].eventId, req[p].language>>] = <<>>
                   THEN Throw(p, "Not eligible")
                   ELSE /\ seriesId' = [seriesId EXCEPT ![p] = events[CHOOSE i \in rows : TRUE].series]
                        /\ Goto(p, "resolve")
                        /\ UNCHANGED <<cached, seriesEvents, individual, quiz>>
    /\ UNCHANGED <<dbVars, cache, changes, calls, eligibility, bulk, lastSet, req, validation, transcripts, extraction>>

\* step 2: SELECT id, series, title FROM all_events
\*         WHERE id = $1 AND series IS NOT NULL AND state = 'ready'
EventQuery(p) ==
    /\ pc[p] = "eventQuery"
    /\ \E fail \in BOOLEAN :
          IF fail
          THEN Throw(p, "query failed")
          ELSE LET rows == {i \in DOMAIN events :
                               /\ events[i].id = req[p].eventId
                               /\ events[i].series # NoSeries
                               /\ events[i].state = "ready"}
               IN  IF rows = {}
                   THEN Throw(p, "Event not found or not part of a series")
                   ELSE /\ seriesId' = [seriesId EXCEPT ![p] = events[CHOOSE i \in rows : TRUE].series]
                        /\ Goto(p, "resolve")
                        /\ UNCHANGED <<cached, seriesEvents, individual, quiz>>
    /\ UNCHANGED <<dbVars, cache, changes, calls, eligibility, bulk, lastSet, req, validation, transcripts, extraction>>

\* step 3: getSeriesEventsUpTo(seriesId, eventId); then the per-event quiz
\* queries of step 4 are issued
Resolve(p) ==
    /\ pc[p] = "resolve"
    /\ \E fail \in BOOLEAN :
          IF fail
          THEN Throw(p, "query failed")
          ELSE LET rows == GetSeriesEventsUpTo(events, seriesId[p], req[p].eventId)
               IN  IF rows = <<>>
                   THEN Throw(p, "No events found in series")
                   ELSE /\ seriesEvents' = [seriesEvents EXCEPT ![p] = rows]
                        /\ individual' = [individual EXCEPT ![p] = [i \in DOMAIN rows |-> <<>>]]
                        /\ Goto(p, "fetch")
                        /\ UNCHANGED <<cached, seriesId, quiz>>
    /\ UNCHANGED <<dbVars, cache, changes, calls, eligibility, bulk, lastSet, req, validation, transcripts, extraction>>

\* BuildQuiz counting only the events that have a stored quiz
BuildQuizCountsQuizzes(eventId, series, language, evs, fetched, time) ==
    [eventId |-> eventId, seriesId |-> series, language |-> language,
     model |-> DefaultModel,
     questions |-> CombineQuizzes(fetched, evs),
     includedEventIds |-> Ids(evs),
     videoCount |-> Cardinality({i \in DOMAIN fetched : fetched[i].questions # <<>>}),
     processingTimeMs |-> time]

\* BuildQuiz storing the ids sorted, as isCacheValid compares them
BuildQuizSortsIds(eventId, series, language, evs, fetched, time) ==
    [eventId |-> eventId, seriesId |-> series, language |-> language,
     model |-> DefaultModel,
     questions |-> CombineQuizzes(fetched, evs),
     includedEventIds |-> SortIds(Ids(evs)),
     videoCount |-> Len(evs),
     processingTimeMs |-> time]

\* step 6: the CumulativeQuiz object built from the resolved events and the
\* fetched quizzes
BuildQuiz(eventId, series, language, evs, fetched, time) ==
    [eventId |-> eventId, seriesId |-> series, language |-> language,
     model |-> DefaultModel,
     questions |-> CombineQuizzes(fetched, evs),
     includedEventIds |-> Ids(evs),
     videoCount |-> Len(evs),
     processingTimeMs |-> time]

\* step 4: one of the concurrent getOrGenerateIndividualQuiz queries
\* resolves; when it is the last one, Promise.all resolves and steps 5 and 6
\* (combine, build the quiz object) run
FetchIndividual(p, i) ==
    /\ pc[p] = "fetch"
    /\ i \in DOMAIN individual[p]
    /\ individual[p][i] = <<>>
    /\ \E fail \in BOOLEAN :
          IF fail
          THEN Throw(p, "query failed")
          ELSE LET got == [individual[p] EXCEPT ![i] =
                              <<IndividualQuiz(quizzes, seriesEvents[p][i].id, req[p].language)>>]
               IN  /\ individual' = [individual EXCEPT ![p] = got]
                   /\ IF \A j \in DOMAIN got : got[j] # <<>>
                      THEN /\ \E time \in 0..MaxTime :
                                quiz' = [quiz EXCEPT ![p] =
                                    <<BuildQuiz(req[p].eventId, seriesId[p], req[p].language,
                                                seriesEvents[p],
                                                [j \in DOMAIN got |-> got[j][1]], time)>>]
                           /\ Goto(p, "saveDb")
                      ELSE UNCHANGED <<pc, outcome, quiz>>
                   /\ UNCHANGED <<cached, seriesId, seriesEvents>>
    /\ UNCHANGED <<dbVars, cache, changes, calls, eligibility, bulk, lastSet, req, validation, transcripts, extraction>>

\* SaveToDb with the cache written before the upsert is awaited
SaveToDbCacheFirst(p) ==
    /\ pc[p] = "saveDb"
    /\ \E fail \in BOOLEAN :
          IF fail
          THEN /\ Throw(p, "upsert failed")
               /\ cache' = CacheSet(cache, Key(p), quiz[p][1], CumulativeTtl)
               /\ UNCHANGED cumulative
          ELSE /\ cumulative' = UpsertCumulative(cumulative, quiz[p][1])
               /\ Goto(p, "cacheSet")
               /\ UNCHANGED <<localVars, cache>>
    /\ UNCHANGED <<events, quizzes, changes, calls, eligibility, bulk, lastSet, req, validation, transcripts, extraction>>

\* saveCumulativeQuiz, the upsert: await this.pool.query(query, [...]);
\* the catch block logs 'Failed to save cumulative quiz' and rethrows
SaveToDb(p) ==
    /\ pc[p] = "saveDb"
    /\ \E fail \in BOOLEAN :
          IF fail
          THEN Throw(p, "upsert failed") /\ UNCHANGED cumulative
          ELSE /\ cumulative' = UpsertCumulative(cumulative, quiz[p][1])
               /\ Goto(p, "cacheSet")
               /\ UNCHANGED localVars
    /\ UNCHANGED <<events, quizzes, cache, changes, calls, eligibility, bulk, lastSet, req, validation, transcripts, extraction>>

\* saveCumulativeQuiz, write-through: await this.cache.set(cacheKey, quiz,
\* 604800); then generateCumulativeQuiz returns quiz
SaveToCache(p) ==
    /\ pc[p] = "cacheSet"
    /\ cache' = CacheSet(cache, Key(p), quiz[p][1], CumulativeTtl)
    /\ Finish(p, [kind |-> "generated", quiz |-> quiz[p], error |-> "", request |-> req[p]])
    /\ UNCHANGED <<dbVars, changes, calls, eligibility, bulk, lastSet, req, validation, transcripts, extraction>>

\* --------------------------------------------------------- other handlers
\* DELETE /api/cumulative-quizzes/:eventId
\*   DELETE FROM ai_cumulative_quizzes WHERE event_id = $1 AND language = $2
\* (404 when no row was deleted)
DeleteCumulativeQuiz(eventId, language) ==
    /\ CumulativeRows(cumulative, eventId, language) # {}
    /\ cumulative' = cumulative \ CumulativeRows(cumulative, eventId, language)
    /\ UNCHANGED <<events, quizzes, cache, changes, calls, eligibility, bulk, lastSet, pc, req, validation, localVars, outcome, transcripts, extraction>>

\* GET /api/cumulative-quizzes/:eventId arrives; language is the query
\* parameter, <<>> when it is missing (400)
StartGetCumulativeQuiz(p, eventId, language) ==
    /\ pc[p] = "idle"
    /\ validation' = [validation EXCEPT ![p] = NoValidation]
    /\ IF language = <<>>
       THEN /\ req' = [req EXCEPT ![p] = [NoRequest EXCEPT !.eventId = eventId,
                                                           !.epoch = changes]]
            /\ Finish(p, [kind |-> "badRequest", quiz |-> <<>>,
                          error |-> "Language is required", request |-> req'[p]])
       ELSE /\ req' = [req EXCEPT ![p] = [NoRequest EXCEPT !.eventId = eventId,
                                                           !.language = language[1],
                                                           !.epoch = changes]]
            /\ Goto(p, "getCache")
            /\ UNCHANGED localVars
    /\ UNCHANGED <<dbVars, cache, changes, calls, eligibility, bulk, lastSet, transcripts, extraction>>

\* GetQuizFromCache that runs isCacheValid on a hit and answers 404 when the
\* entry is stale
GetQuizFromCacheChecked(p) ==
    /\ pc[p] = "getCache"
    /\ LET hit == CacheGet(cache, Key(p))
       IN  IF hit # <<>>
           THEN IF IsCacheValid(events, hit[1])
                THEN Finish(p, [kind |-> "found", quiz |-> hit, error |-> "",
                                request |-> req[p]])
                ELSE Finish(p, [kind |-> "notFound", quiz |-> <<>>,
                                error |-> "Cumulative quiz not found", request |-> req[p]])
           ELSE /\ Goto(p, "getDb")
                /\ UNCHANGED localVars
    /\ UNCHANGED <<dbVars, cache, changes, calls, eligibility, bulk, lastSet, req, validation, transcripts, extraction>>

\* the handler's getCachedQuiz, memory cache: a hit is the response (200)
GetQuizFromCache(p) ==
    /\ pc[p] = "getCache"
    /\ LET hit == CacheGet(cache, Key(p))
       IN  IF hit # <<>>
           THEN Finish(p, [kind |-> "found", quiz |-> hit, error |-> "",
                           request |-> req[p]])
           ELSE /\ Goto(p, "getDb")
                /\ UNCHANGED localVars
    /\ UNCHANGED <<dbVars, cache, changes, calls, eligibility, bulk, lastSet, req, validation, transcripts, extraction>>

\* the handler's getCachedQuiz, database: no row is 404, an error is 500
GetQuizFromDb(p) ==
    /\ pc[p] = "getDb"
    /\ \E fail \in BOOLEAN :
          IF fail
          THEN Throw(p, "Failed to retrieve cumulative quiz")
          ELSE LET rows == CumulativeRows(cumulative, req[p].eventId, req[p].language)
               IN  IF rows # {}
                   THEN /\ cached' = [cached EXCEPT ![p] = <<QuizOfRow(CHOOSE r \in rows : TRUE)>>]
                        /\ Goto(p, "getReCache")
                        /\ UNCHANGED <<seriesId, seriesEvents, individual, quiz>>
                   ELSE Finish(p, [kind |-> "notFound", quiz |-> <<>>,
                                   error |-> "Cumulative quiz not found", request |-> req[p]])
    /\ UNCHANGED <<dbVars, cache, changes, calls, eligibility, bulk, lastSet, req, validation, transcripts, extraction>>

\* the handler's getCachedQuiz, re-cache; then the row is the response (200)
GetQuizReCache(p) ==
    /\ pc[p] = "getReCache"
    /\ cache' = CacheSet(cache, Key(p), cached[p][1], CumulativeTtl)
    /\ Finish(p, [kind |-> "found", quiz |-> cached[p], error |-> "", request |-> req[p]])
    /\ UNCHANGED <<dbVars, changes, calls, eligibility, bulk, lastSet, req, validation, transcripts, extraction>>

\* ------------------------------------------- individual quiz endpoints
\* the object the quiz endpoints keep in the cache
QuizEntry(data) == [quiz |-> data, model |-> DefaultModel]

\* the handler of connection p answers; language is <<>> when it was missing
Respond(p, kind, q, error, eventId, language) ==
    outcome' = [outcome EXCEPT ![p] =
                   [kind |-> kind, quiz |-> q, error |-> error,
                    request |-> [NoRequest EXCEPT
                                    !.eventId = eventId,
                                    !.language = IF language = <<>> THEN @ ELSE language[1],
                                    !.epoch = changes]]]

\* GET /api/quizzes/:eventId: the cache entry, or the row of ai_quizzes,
\* which is then cached
GetQuiz(p, eventId, language) ==
    /\ pc[p] = "idle"
    /\ IF language = <<>>
       THEN /\ Respond(p, "badRequest", <<>>, "Language parameter is required", eventId, language)
            /\ UNCHANGED cache
       ELSE LET key == QuizKey(eventId, language[1])
                hit == CacheGet(cache, key)
                row == quizzes[<<eventId, language[1]>>]
            IN  IF hit # <<>>
                THEN /\ Respond(p, "cached", <<hit[1].quiz>>, "", eventId, language)
                     /\ UNCHANGED cache
                ELSE \E fail \in BOOLEAN :
                        IF fail
                        THEN /\ Respond(p, "error", <<>>, "query failed", eventId, language)
                             /\ UNCHANGED cache
                        ELSE IF row = <<>>
                        THEN /\ Respond(p, "notFound", <<>>, "Quiz not found", eventId, language)
                             /\ UNCHANGED cache
                        ELSE /\ cache' = CacheSet(cache, key, QuizEntry(row[1]), CacheTtlSeconds)
                             /\ Respond(p, "found", row, "", eventId, language)
    /\ UNCHANGED <<dbVars, changes, calls, pc, req, validation, localVars, eligibility,
                   bulk, lastSet, transcripts, extraction>>

\* POST /api/quizzes/generate/:eventId: the toggle, the cache unless
\* forceRegenerate, the transcript, openai.generateQuiz, the upsert of
\* ai_quizzes and the cache.set of the new quiz
GenerateQuiz(p, eventId, language, force) ==
    /\ pc[p] = "idle"
    /\ IF language = <<>>
       THEN /\ Respond(p, "badRequest", <<>>, "Language is required", eventId, language)
            /\ UNCHANGED <<quizzes, cache, changes>>
       ELSE LET key == QuizKey(eventId, language[1])
                hit == CacheGet(cache, key)
            IN  \E enabled \in BOOLEAN, transcript \in {"row", "none", "error"},
                   ok \in BOOLEAN, data \in QuizPool :
                   IF ~enabled
                   THEN /\ Respond(p, "forbidden", <<>>, "Quiz feature is disabled", eventId, language)
                        /\ UNCHANGED <<quizzes, cache, changes>>
                   ELSE IF ~force /\ hit # <<>>
                   THEN /\ Respond(p, "cached", <<hit[1].quiz>>, "", eventId, language)
                        /\ UNCHANGED <<quizzes, cache, changes>>
                   ELSE IF transcript = "none"
                   THEN /\ Respond(p, "notFound", <<>>, "No transcript found for this video",
                                   eventId, language)
                        /\ UNCHANGED <<quizzes, cache, changes>>
                   ELSE IF transcript = "error" \/ ~ok
                   THEN /\ Respond(p, "error", <<>>, "Failed to generate quiz", eventId, language)
                        /\ UNCHANGED <<quizzes, cache, changes>>
                   ELSE /\ quizzes' = [quizzes EXCEPT ![<<eventId, language[1]>>] = <<data>>]
                        /\ changes' = changes + 1
                        /\ cache' = CacheSet(cache, key, QuizEntry(data), CacheTtlSeconds)
                        /\ Respond(p, "generated", <<data>>, "", eventId, language)
    /\ UNCHANGED <<events, cumulative, calls, pc, req, validation, localVars, eligibility,
                   bulk, lastSet, transcripts, extraction>>

\* PUT /api/quizzes/:eventId with the quiz `data` in the body: the row must
\* exist; UPDATE ai_quizzes SET quiz_data, then cache.invalidate of the key
UpdateQuiz(p, eventId, language, data) ==
    /\ pc[p] = "idle"
    /\ IF language = <<>>
       THEN /\ Respond(p, "badRequest", <<>>, "Language is required", eventId, language)
            /\ UNCHANGED <<quizzes, cache, changes>>
       ELSE IF data = <<>>
       THEN /\ Respond(p, "badRequest", <<>>, "Quiz data is required", eventId, language)
            /\ UNCHANGED <<quizzes, cache, changes>>
       ELSE \E selectFails \in BOOLEAN, updateFails \in BOOLEAN :
               IF selectFails
               THEN /\ Respond(p, "error", <<>>, "Failed to update quiz", eventId, language)
                    /\ UNCHANGED <<quizzes, cache, changes>>
               ELSE IF quizzes[<<eventId, language[1]>>] = <<>>
               THEN /\ Respond(p, "notFound", <<>>, "Quiz not found", eventId, language)
                    /\ UNCHANGED <<quizzes, cache, changes>>
               ELSE IF updateFails
               THEN /\ Respond(p, "error", <<>>, "Failed to update quiz", eventId, language)
                    /\ UNCHANGED <<quizzes, cache, changes>>
               ELSE /\ quizzes' = [quizzes EXCEPT ![<<eventId, language[1]>>] = data]
                    /\ changes' = changes + 1
                    /\ cache' = CacheInvalidate(cache, QuizKey(eventId, language[1]))
                    /\ Respond(p, "updated", data, "", eventId, language)
    /\ UNCHANGED <<events, cumulative, calls, pc, req, validation, localVars, eligibility,
                   bulk, lastSet, transcripts, extraction>>

\* ------------------------------------------------- CaptionExtractorService
\* a text must be longer than this to be stored as a transcript
MinTranscriptLength == 100

\* caption texts, by where they come from and how long they are
CaptionText(from, length) == [from |-> from, length |-> length]

\* the language codes a caller passes
RawLanguages == {"en", "EN", " en ", ""}

\* normalizeLanguageCode: trimmed and lower case, <<>> when it throws
\* 'Language code is required' (empty or blank input)
NormalizeLanguageCode(language) ==
    IF language \in {"en", "EN", " en "} THEN <<"en">> ELSE <<>>

\* INSERT INTO video_transcripts ... ON CONFLICT (event_id, language)
\* DO UPDATE SET content, source
UpsertTranscript(tbl, eventId, language, content, source) ==
    [tbl EXCEPT ![<<eventId, language>>] = <<[content |-> content, source |-> source]>>]

\* the ExtractionResult objects
ExtractionSuccess(language, content, source) ==
    [success |-> TRUE, language |-> language, transcriptLength |-> <<content.length>>,
     error |-> "", source |-> source]

ExtractionFailure(language, error) ==
    [success |-> FALSE, language |-> language, transcriptLength |-> <<>>,
     error |-> error, source |-> "captions_array"]

\* the call returns r
ReturnExtraction(r) == extraction' = [extraction EXCEPT !.pc = "idle", !.result = <<r>>]

\* the catch block of extractForEvent: a store error ends the call
CatchExtraction ==
    extraction' = [extraction EXCEPT
                      !.pc = "idle", !.storeError = TRUE,
                      !.result = <<ExtractionFailure(extraction.language[1], "query failed")>>]

\* extractForEvent(eventId, language) is called: the language is normalized
\* before the try block, so an empty code makes the call throw
StartExtractForEvent(eventId, language) ==
    /\ extraction.pc = "idle"
    /\ extraction' =
          IF NormalizeLanguageCode(language) = <<>>
          THEN [NoExtraction EXCEPT !.eventId = eventId, !.thrown = TRUE]
          ELSE [NoExtraction EXCEPT !.pc = "eventTexts", !.eventId = eventId,
                                    !.language = NormalizeLanguageCode(language)]
    /\ UNCHANGED <<dbVars, cache, changes, calls, pc, req, validation, localVars, outcome,
                   eligibility, bulk, lastSet, transcripts>>

\* strategy 1: getFromEventTexts, whose catch block turns an error of the
\* query into null; a text longer than 100 characters is upserted next
GetFromEventTexts ==
    /\ extraction.pc = "eventTexts"
    /\ \E fail \in BOOLEAN,
          fullText \in {<<>>} \cup {<<CaptionText("event_texts", n)>> :
                                       n \in MinTranscriptLength..(MinTranscriptLength + 1)} :
          LET got == IF fail THEN <<>> ELSE fullText
          IN  extraction' =
                 [extraction EXCEPT
                     !.eventTextCaption = got,
                     !.storeError = fail,
                     !.pc = IF got # <<>> /\ got[1].length > MinTranscriptLength
                            THEN "saveEventTexts" ELSE "captionQuery"]
    /\ UNCHANGED <<dbVars, cache, changes, calls, pc, req, validation, localVars, outcome,
                   eligibility, bulk, lastSet, transcripts>>

\* the upsert of the event_texts caption; success is returned after it
SaveEventTexts ==
    /\ extraction.pc = "saveEventTexts"
    /\ \E fail \in BOOLEAN :
          IF fail
          THEN CatchExtraction /\ UNCHANGED transcripts
          ELSE /\ transcripts' = UpsertTranscript(transcripts, extraction.eventId,
                                                  extraction.language[1],
                                                  extraction.eventTextCaption[1], "event_texts")
               /\ ReturnExtraction(ExtractionSuccess(extraction.language[1],
                                                     extraction.eventTextCaption[1],
                                                     "event_texts"))
    /\ UNCHANGED <<dbVars, cache, changes, calls, pc, req, validation, localVars, outcome,
                   eligibility, bulk, lastSet>>

\* strategy 2: the uri of the caption of the language in all_events.captions
CaptionQuery ==
    /\ extraction.pc = "captionQuery"
    /\ \E fail \in BOOLEAN, found \in BOOLEAN :
          IF fail THEN CatchExtraction
          ELSE IF ~found
          THEN ReturnExtraction(ExtractionFailure(extraction.language[1], "No captions found"))
          ELSE extraction' = [extraction EXCEPT !.pc = "fetchCaption"]
    /\ UNCHANGED <<dbVars, cache, changes, calls, pc, req, validation, localVars, outcome,
                   eligibility, bulk, lastSet, transcripts>>

\* fetchAndParseCaption: null when the request fails, the response is empty
\* or the file has no cues; a full text longer than 100 characters is
\* upserted next
FetchAndParseCaption ==
    /\ extraction.pc = "fetchCaption"
    /\ \E parsed \in {<<>>} \cup {<<CaptionText("captions_array", n)>> :
                                     n \in MinTranscriptLength..(MinTranscriptLength + 1)} :
          IF parsed # <<>> /\ parsed[1].length > MinTranscriptLength
          THEN extraction' = [extraction EXCEPT !.pc = "saveCaption", !.parsed = parsed]
          ELSE extraction' =
                  [extraction EXCEPT
                      !.pc = "idle", !.parsed = parsed,
                      !.result = <<ExtractionFailure(extraction.language[1],
                                                     "No captions found")>>]
    /\ UNCHANGED <<dbVars, cache, changes, calls, pc, req, validation, localVars, outcome,
                   eligibility, bulk, lastSet, transcripts>>

\* the upsert of the caption file's text; success is returned after it
SaveCaption ==
    /\ extraction.pc = "saveCaption"
    /\ \E fail \in BOOLEAN :
          IF fail
          THEN CatchExtraction /\ UNCHANGED transcripts
          ELSE /\ transcripts' = UpsertTranscript(transcripts, extraction.eventId,
                                                  extraction.language[1],
                                                  extraction.parsed[1], "captions_array")
               /\ ReturnExtraction(ExtractionSuccess(extraction.language[1],
                                                     extraction.parsed[1], "captions_array"))
    /\ UNCHANGED <<dbVars, cache, changes, calls, pc, req, validation, localVars, outcome,
                   eligibility, bulk, lastSet>>

\* the TTL of a cache entry elapses
Expire(key) ==
    /\ cache[key] # <<>>
    /\ cache' = [cache EXCEPT ![key] = <<>>]
    /\ UNCHANGED <<dbVars, changes, calls, eligibility, bulk, lastSet, pc, req, validation, localVars, outcome, transcripts, extraction>>

\* ------------------------------------------------------------- environment
IndexOf(id) == CHOOSE i \in DOMAIN events : events[i].id = id

\* the portal changes a video: lifecycle state, series, order metadata
SetEventState(id, state) ==
    /\ events[IndexOf(id)].state # state
    /\ events' = [events EXCEPT ![IndexOf(id)].state = state]
    /\ changes' = changes + 1
    /\ UNCHANGED <<quizzes, cumulative, cache, calls, eligibility, bulk, lastSet, pc, req, validation, localVars, outcome, transcripts, extraction>>

SetEventSeries(id, series) ==
    /\ events[IndexOf(id)].series # series
    /\ events' = [events EXCEPT ![IndexOf(id)].series = series]
    /\ changes' = changes + 1
    /\ UNCHANGED <<quizzes, cumulative, cache, calls, eligibility, bulk, lastSet, pc, req, validation, localVars, outcome, transcripts, extraction>>

SetEventOrder(id, order) ==
    /\ events[IndexOf(id)].order # order
    /\ events' = [events EXCEPT ![IndexOf(id)].order = order]
    /\ changes' = changes + 1
    /\ UNCHANGED <<quizzes, cumulative, cache, calls, eligibility, bulk, lastSet, pc, req, validation, localVars, outcome, transcripts, extraction>>

SetEventCreated(id, created) ==
    /\ events[IndexOf(id)].created # created
    /\ events' = [events EXCEPT ![IndexOf(id)].created = created]
    /\ changes' = changes + 1
    /\ UNCHANGED <<quizzes, cumulative, cache, calls, eligibility, bulk, lastSet, pc, req, validation, localVars, outcome, transcripts, extraction>>

\* an individual quiz is stored or replaced (POST /api/quizzes/generate,
\* PUT /api/quizzes/:eventId) or deleted (DELETE /api/quizzes/:eventId)
PutQuiz(eventId, language, data) ==
    /\ quizzes[<<eventId, language>>] # <<data>>
    /\ quizzes' = [quizzes EXCEPT ![<<eventId, language>>] = <<data>>]
    /\ changes' = changes + 1
    /\ UNCHANGED <<events, cumulative, cache, calls, eligibility, bulk, lastSet, pc, req, validation, localVars, outcome, transcripts, extraction>>

DeleteQuiz(eventId, language) ==
    /\ quizzes[<<eventId, language>>] # <<>>
    /\ quizzes' = [quizzes EXCEPT ![<<eventId, language>>] = <<>>]
    /\ changes' = changes + 1
    /\ UNCHANGED <<events, cumulative, cache, calls, eligibility, bulk, lastSet, pc, req, validation, localVars, outcome, transcripts, extraction>>

\* -------------------------------------------------------- checkEligibility
\* the reasons checkEligibility returns
ReasonNotFound == "Event not found or not ready"
ReasonNoSeries == "This video is not part of a series. Cumulative quizzes require a video series."
ReasonNoQuiz == "Generate a regular quiz for this video first before creating a cumulative quiz."
ReasonNoPosition == "Video position could not be determined in the series"
ReasonFirstVideo == "This is the first video in the series. Cumulative quizzes require at least one previous video with a quiz."
ReasonNoPreviousQuiz == "No previous videos in this series have quizzes yet. Generate quizzes for earlier videos first."
ReasonEligible == "Cumulative quiz can be generated."
ReasonError == "Error checking eligibility"

\* the object checkEligibility returns; <<>> is a detail that is not there
EligibilityResult(eligible, reason, position, totalInSeries, previous, hasQuiz) ==
    [eligible |-> eligible, reason |-> reason,
     details |-> [position |-> position, totalInSeries |-> totalInSeries,
                  previousVideosWithQuizzes |-> previous, hasQuiz |-> hasQuiz]]

\* the handler's answer to a result r of checkEligibility:
\* res.json({eventId, language, ...result}), status 200
EligibilityResponse(eventId, language, r) ==
    [status |-> 200, eventId |-> eventId, language |-> language,
     eligible |-> r.eligible, reason |-> r.reason, details |-> r.details]

\* the call returns r and the handler answers; the answer before it is kept
\* behind it when it was about the same video and language
Return(r) ==
    eligibility' =
        [eligibility EXCEPT
            !.pc = "idle", !.seriesId = NoSeries, !.allSeriesVideos = <<>>,
            !.result = <<EligibilityResponse(eligibility.eventId, eligibility.language, r)>>
                       \o (IF eligibility.result = <<>> THEN <<>>
                           ELSE <<eligibility.result[1]>>)]

\* catch (error): eligible false with the message of the error
ReturnError == Return(EligibilityResult(FALSE, ReasonError, <<>>, <<>>, <<>>, <<>>))

\* GET /api/cumulative-quizzes/eligibility/:eventId
StartCheckEligibility(eventId, language) ==
    /\ eligibility.pc = "idle"
    /\ eligibility' = [pc |-> "eventQuery", eventId |-> eventId, language |-> language,
                       epoch |-> changes, seriesId |-> NoSeries,
                       allSeriesVideos |-> <<>>,
                       result |-> SelectSeq(SubSeq(eligibility.result, 1,
                                                   IF eligibility.result = <<>> THEN 0 ELSE 1),
                                            LAMBDA r : r.eventId = eventId /\ r.language = language)]
    /\ UNCHANGED <<dbVars, cache, changes, calls, pc, req, validation, localVars, outcome, bulk, lastSet, transcripts, extraction>>

\* CheckEventQuery going on to the quiz query without looking at event.series
CheckEventQueryWithoutSeriesGate ==
    /\ eligibility.pc = "eventQuery"
    /\ \E fail \in BOOLEAN :
          IF fail THEN ReturnError
          ELSE LET rows == {i \in DOMAIN events :
                               /\ events[i].id = eligibility.eventId
                               /\ events[i].state = "ready"}
               IN  IF rows = {}
                   THEN Return(EligibilityResult(FALSE, ReasonNotFound, <<>>, <<>>, <<>>, <<>>))
                   ELSE eligibility' =
                           [eligibility EXCEPT !.pc = "quizQuery",
                                               !.seriesId = events[CHOOSE i \in rows : TRUE].series]
    /\ UNCHANGED <<dbVars, cache, changes, calls, pc, req, validation, localVars, outcome, bulk, lastSet, transcripts, extraction>>

\* step 1: SELECT ... FROM all_events e ... WHERE e.id = $1 AND e.state = 'ready'
\* then if (!event.series)
CheckEventQuery ==
    /\ eligibility.pc = "eventQuery"
    /\ \E fail \in BOOLEAN :
          IF fail THEN ReturnError
          ELSE LET rows == {i \in DOMAIN events :
                               /\ events[i].id = eligibility.eventId
                               /\ events[i].state = "ready"}
               IN  IF rows = {}
                   THEN Return(EligibilityResult(FALSE, ReasonNotFound, <<>>, <<>>, <<>>, <<>>))
                   ELSE IF events[CHOOSE i \in rows : TRUE].series = NoSeries
                   THEN Return(EligibilityResult(FALSE, ReasonNoSeries, <<>>, <<>>, <<>>, <<>>))
                   ELSE eligibility' =
                           [eligibility EXCEPT !.pc = "quizQuery",
                                               !.seriesId = events[CHOOSE i \in rows : TRUE].series]
    /\ UNCHANGED <<dbVars, cache, changes, calls, pc, req, validation, localVars, outcome, bulk, lastSet, transcripts, extraction>>

\* CheckQuizQuery that also takes a stored cumulative quiz of the video as
\* its quiz
CheckQuizQueryFromCumulative ==
    /\ eligibility.pc = "quizQuery"
    /\ \E fail \in BOOLEAN :
          IF fail THEN ReturnError
          ELSE IF /\ quizzes[<<eligibility.eventId, eligibility.language>>] = <<>>
                  /\ CumulativeRows(cumulative, eligibility.eventId, eligibility.language) = {}
          THEN Return(EligibilityResult(FALSE, ReasonNoQuiz, <<>>, <<>>, <<>>, <<FALSE>>))
          ELSE eligibility' = [eligibility EXCEPT !.pc = "positionQuery"]
    /\ UNCHANGED <<dbVars, cache, changes, calls, pc, req, validation, localVars, outcome, bulk, lastSet, transcripts, extraction>>

\* step 2: SELECT id FROM ai_quizzes WHERE event_id = $1 AND language = $2
CheckQuizQuery ==
    /\ eligibility.pc = "quizQuery"
    /\ \E fail \in BOOLEAN :
          IF fail THEN ReturnError
          ELSE IF quizzes[<<eligibility.eventId, eligibility.language>>] = <<>>
          THEN Return(EligibilityResult(FALSE, ReasonNoQuiz, <<>>, <<>>, <<>>, <<FALSE>>))
          ELSE eligibility' = [eligibility EXCEPT !.pc = "positionQuery"]
    /\ UNCHANGED <<dbVars, cache, changes, calls, pc, req, validation, localVars, outcome, bulk, lastSet, transcripts, extraction>>

\* allSeriesVideos.findIndex(v => v.id.toString() === eventId.toString()),
\* 0 for -1
CurrentVideoPosition(allSeriesVideos, eventId) ==
    IF \E k \in DOMAIN allSeriesVideos : allSeriesVideos[k].id = eventId
    THEN CHOOSE k \in DOMAIN allSeriesVideos : allSeriesVideos[k].id = eventId
    ELSE 0

\* CheckPositionQuery without the check of videosBeforeThis.length
CheckPositionQueryWithoutFirstGate ==
    /\ eligibility.pc = "positionQuery"
    /\ \E fail \in BOOLEAN :
          IF fail THEN ReturnError
          ELSE LET all == OrderedEvents(events, eligibility.seriesId)
                   currentPosition == CurrentVideoPosition(all, eligibility.eventId)
               IN  IF currentPosition = 0
                   THEN Return(EligibilityResult(FALSE, ReasonNoPosition, <<>>, <<>>, <<>>, <<TRUE>>))
                   ELSE eligibility' = [eligibility EXCEPT !.pc = "previousQuizzesQuery",
                                                           !.allSeriesVideos = all]
    /\ UNCHANGED <<dbVars, cache, changes, calls, pc, req, validation, localVars, outcome, bulk, lastSet, transcripts, extraction>>

\* step 3: the position query over the ready videos of the series, the index
\* of the video in it and the videos before it
CheckPositionQuery ==
    /\ eligibility.pc = "positionQuery"
    /\ \E fail \in BOOLEAN :
          IF fail THEN ReturnError
          ELSE LET all == OrderedEvents(events, eligibility.seriesId)
                   currentPosition == CurrentVideoPosition(all, eligibility.eventId)
               IN  IF currentPosition = 0
                   THEN Return(EligibilityResult(FALSE, ReasonNoPosition, <<>>, <<>>, <<>>, <<TRUE>>))
                   ELSE IF SubSeq(all, 1, currentPosition - 1) = <<>>
                   THEN Return(EligibilityResult(FALSE, ReasonFirstVideo, <<currentPosition>>,
                                                 <<Len(all)>>, <<0>>, <<TRUE>>))
                   ELSE eligibility' = [eligibility EXCEPT !.pc = "previousQuizzesQuery",
                                                           !.allSeriesVideos = all]
    /\ UNCHANGED <<dbVars, cache, changes, calls, pc, req, validation, localVars, outcome, bulk, lastSet, transcripts, extraction>>

\* PreviousVideosWithQuizzes counting the previous videos themselves
PreviousVideosCounted(qt, previousIds, language) ==
    Cardinality(Range(previousIds))

\* SELECT DISTINCT event_id FROM ai_quizzes
\* WHERE event_id = ANY($1::bigint[]) AND language = $2: the number of rows
PreviousVideosWithQuizzes(qt, previousIds, language) ==
    Cardinality({id \in Range(previousIds) : qt[<<id, language>>] # <<>>})

\* step 4: how many of the previous videos have quizzes
CheckPreviousQuizzesQuery ==
    /\ eligibility.pc = "previousQuizzesQuery"
    /\ \E fail \in BOOLEAN :
          IF fail THEN ReturnError
          ELSE LET all == eligibility.allSeriesVideos
                   currentPosition == CurrentVideoPosition(all, eligibility.eventId)
                   previousIds == Ids(SubSeq(all, 1, currentPosition - 1))
                   previous == PreviousVideosWithQuizzes(quizzes, previousIds,
                                                         eligibility.language)
               IN  IF previous = 0
                   THEN Return(EligibilityResult(FALSE, ReasonNoPreviousQuiz, <<currentPosition>>,
                                                 <<Len(all)>>, <<0>>, <<TRUE>>))
                   ELSE Return(EligibilityResult(TRUE, ReasonEligible, <<currentPosition>>,
                                                 <<Len(all)>>, <<previous>>, <<TRUE>>))
    /\ UNCHANGED <<dbVars, cache, changes, calls, pc, req, validation, localVars, outcome, bulk, lastSet, transcripts, extraction>>

\* ------------------------------------------------------------ specification
\* the steps of the generateCumulativeQuiz call of connection p
Call(p, maxCalls, anchors) ==
    \/ /\ calls < maxCalls
       /\ \E e \in anchors, l \in Languages, f \in BOOLEAN : Start(p, e, l, f)
    \/ GetCachedFromCache(p)
    \/ GetCachedFromDb(p)
    \/ ReCache(p)
    \/ Validate(p)
    \/ EventQuery(p)
    \/ Resolve(p)
    \/ \E i \in 1..Cardinality(EventIds) : FetchIndividual(p, i)
    \/ SaveToDb(p)
    \/ SaveToCache(p)

\* changes made by the portal and by the individual-quiz handlers
Changes ==
    /\ changes < MaxChanges
    /\ \/ \E e \in EventIds, st \in {"ready", "waiting"} : SetEventState(e, st)
       \/ \E e \in EventIds, s \in SeriesIds \cup {NoSeries} : SetEventSeries(e, s)
       \/ \E e \in EventIds, o \in OrderHints : SetEventOrder(e, o)
       \/ \E e \in EventIds, l \in Languages, d \in QuizPool : PutQuiz(e, l, d)
       \/ \E e \in EventIds, l \in Languages : DeleteQuiz(e, l)

\* one generate request at a time
Next ==
    \/ Call("p1", MaxCalls, Anchors)
    \/ \E e \in EventIds, l \in Languages : DeleteCumulativeQuiz(e, l)
    \/ \E k \in CacheKeys : Expire(k)
    \/ Changes

Spec == Init /\ [][Next]_vars

\* overlapping generate requests for video 10, which may move to the other
\* series
NextOverlapping ==
    \/ \E p \in Procs : Call(p, MaxOverlappingCalls, {10})
    \/ SetEventSeries(10, 2)

SpecOverlapping == Init /\ [][NextOverlapping]_vars

\* ------------------------------------------------- resolver on drawn tables
\* order hints of the drawn tables: none, negative, above the ELSE value
ResolverHints == {<<>>, <<-1>>, <<1000000>>}

\* tables of three videos; 2 and 10 are ready members of series 1 created at
\* the same time, 3 is older and may be not ready or in the other series
ResolverTables ==
    {<< EventRow(2, "A", 1, "ready", h2, 1),
        EventRow(10, "B", 1, "ready", h10, 1),
        EventRow(3, "C", m[1], m[2], h3, 0) >> :
        h2 \in ResolverHints, h10 \in ResolverHints, h3 \in ResolverHints,
        m \in {<<1, "ready">>, <<1, "waiting">>, <<2, "ready">>}}

InitResolver ==
    /\ events \in ResolverTables
    /\ quizzes = [k \in EventIds \X Languages |->
                    IF k[1] = 2 THEN <<QuizA>> ELSE IF k[1] = 10 THEN <<QuizB>> ELSE <<>>]
    /\ cumulative = {}
    /\ cache = [k \in CacheKeys |-> <<>>]
    /\ changes = 0
    /\ calls = 0
    /\ pc = [p \in Procs |-> "idle"]
    /\ req = [p \in Procs |-> NoRequest]
    /\ cached = [p \in Procs |-> <<>>]
    /\ validation = [p \in Procs |-> NoValidation]
    /\ seriesId = [p \in Procs |-> NoSeries]
    /\ seriesEvents = [p \in Procs |-> <<>>]
    /\ individual = [p \in Procs |-> <<>>]
    /\ quiz = [p \in Procs |-> <<>>]
    /\ outcome = [p \in Procs |-> NoOutcome]
    /\ eligibility = NoEligibility
    /\ bulk = NoBulk
    /\ lastSet = [k \in CacheKeys |-> <<>>]
    /\ transcripts = NoTranscripts
    /\ extraction = NoExtraction

\* the rows of all_events are enumerated in another order by the next query
\* (the ORDER BY of the position query names no unique key, so rows that tie
\* on hint and created come out in the order the scan delivers them); the
\* data is the same
ScanOrderChanges(f) ==
    /\ events' = [k \in DOMAIN events |-> events[f[k]]]
    /\ events' # events
    /\ UNCHANGED <<quizzes, cumulative, cache, changes, calls, eligibility, bulk, lastSet, pc, req, validation,
                   localVars, outcome, transcripts, extraction>>

\* generate requests for video 10 on a drawn table
NextResolver ==
    \/ Call("p1", MaxCalls, {10})
    \/ \E k \in CacheKeys : Expire(k)
    \/ \E f \in Permutations(DOMAIN events) : ScanOrderChanges(f)

SpecResolver == InitResolver /\ [][NextResolver]_vars

\* ------------------------------------------- eligibility on drawn quizzes
\* the ids checkEligibility is asked about: the videos and an id of no video
EligibilityRequests == EventIds \cup {7}

\* a cumulative quiz for video 10 that an earlier generate call has built
\* over videos 2 and 10
EarlierQuiz ==
    BuildQuiz(10, 1, "en",
              << [id |-> 2, title |-> "A", position |-> 1],
                 [id |-> 10, title |-> "B", position |-> 2] >>,
              << [eventId |-> 2, questions |-> QuizA.questions],
                 [eventId |-> 10, questions |-> QuizB.questions] >>, 0)

InitEligibility ==
    /\ events = << EventRow(2, "A", 1, "ready", <<1>>, 1),
                   EventRow(10, "B", 1, "ready", <<>>, 1),
                   EventRow(3, "C", 1, "waiting", <<2>>, 0) >>
    /\ quizzes \in [EventIds \X Languages -> {<<>>, <<QuizA>>}]
    /\ \E stored \in BOOLEAN :
          /\ cumulative = IF stored THEN UpsertCumulative({}, EarlierQuiz) ELSE {}
          /\ cache = IF stored
                     THEN CacheSet([k \in CacheKeys |-> <<>>], CumulativeKey(10, "en"),
                                   EarlierQuiz, CumulativeTtl)
                     ELSE [k \in CacheKeys |-> <<>>]
    /\ changes = 0
    /\ calls = 0
    /\ pc = [p \in Procs |-> "idle"]
    /\ req = [p \in Procs |-> NoRequest]
    /\ cached = [p \in Procs |-> <<>>]
    /\ validation = [p \in Procs |-> NoValidation]
    /\ seriesId = [p \in Procs |-> NoSeries]
    /\ seriesEvents = [p \in Procs |-> <<>>]
    /\ individual = [p \in Procs |-> <<>>]
    /\ quiz = [p \in Procs |-> <<>>]
    /\ outcome = [p \in Procs |-> NoOutcome]
    /\ eligibility = NoEligibility
    /\ bulk = NoBulk
    /\ lastSet = [k \in CacheKeys |-> <<>>]
    /\ transcripts = NoTranscripts
    /\ extraction = NoExtraction

\* the steps of the checkEligibility call
CheckEligibility ==
    \/ \E e \in EligibilityRequests, l \in Languages : StartCheckEligibility(e, l)
    \/ CheckEventQuery
    \/ CheckQuizQuery
    \/ CheckPositionQuery
    \/ CheckPreviousQuizzesQuery

NextEligibility ==
    \/ CheckEligibility
    \/ Changes

SpecEligibility == InitEligibility /\ [][NextEligibility]_vars

\* ------------------------------------- check, then generate, on drawn tables
\* the quizzes the videos may have in ai_quizzes: none, QuizA for 2 and 3,
\* QuizC for 10
ScenarioQuizzes ==
    {qt \in [EventIds \X Languages -> {<<>>, <<QuizA>>, <<QuizC>>}] :
        \A k \in EventIds \X Languages :
            qt[k] \in {<<>>, IF k[1] = 10 THEN <<QuizC>> ELSE <<QuizA>>}}

\* the ids of the requests: the second and third video and an id of no video
ScenarioRequests == {3, 10, 7}

\* three videos of series 1 in the order 2, 3, 10; video 2 may be not ready
ScenarioTables ==
    {<< EventRow(10, "C", 1, "ready", <<>>, 0),
        EventRow(2, "A", 1, st, <<1>>, 1),
        EventRow(3, "B", 1, "ready", <<2>>, 0) >> : st \in {"ready", "waiting"}}

InitScenario ==
    /\ events \in ScenarioTables
    /\ quizzes \in ScenarioQuizzes
    /\ cumulative = {}
    /\ cache = [k \in CacheKeys |-> <<>>]
    /\ changes = 0
    /\ calls = 0
    /\ pc = [p \in Procs |-> "idle"]
    /\ req = [p \in Procs |-> NoRequest]
    /\ cached = [p \in Procs |-> <<>>]
    /\ validation = [p \in Procs |-> NoValidation]
    /\ seriesId = [p \in Procs |-> NoSeries]
    /\ seriesEvents = [p \in Procs |-> <<>>]
    /\ individual = [p \in Procs |-> <<>>]
    /\ quiz = [p \in Procs |-> <<>>]
    /\ outcome = [p \in Procs |-> NoOutcome]
    /\ eligibility = NoEligibility
    /\ bulk = NoBulk
    /\ lastSet = [k \in CacheKeys |-> <<>>]
    /\ transcripts = NoTranscripts
    /\ extraction = NoExtraction

\* one request at a time: eligibility checks and generate requests
NextScenario ==
    \/ eligibility.pc = "idle" /\ Call("p1", MaxCalls, ScenarioRequests)
    \/ /\ pc["p1"] = "idle"
       /\ \/ \E e \in ScenarioRequests \ {7}, l \in Languages : StartCheckEligibility(e, l)
          \/ CheckEventQuery
          \/ CheckQuizQuery
          \/ CheckPositionQuery
          \/ CheckPreviousQuizzesQuery
    \/ \E k \in CacheKeys : Expire(k)

SpecScenario == InitScenario /\ [][NextScenario]_vars

\* ------------------------------------------ generate for a drawn anchor
\* the cumulative quiz for video 3 that an earlier generate call has built
\* over videos 2 and 3
AnchorQuiz ==
    BuildQuiz(3, 1, "en",
              << [id |-> 2, title |-> "A", position |-> 1],
                 [id |-> 3, title |-> "C", position |-> 2] >>,
              << [eventId |-> 2, questions |-> QuizA.questions],
                 [eventId |-> 3, questions |-> <<>>] >>, 0)

\* video 3 is ready or not, in series 1 or in none; the record of the earlier
\* call is stored or not
InitAnchor ==
    /\ \E st \in {"ready", "waiting"}, sr \in {1, NoSeries} :
          events = << EventRow(2, "A", 1, "ready", <<1>>, 1),
                      EventRow(10, "B", 1, "ready", <<>>, 1),
                      EventRow(3, "C", sr, st, <<2>>, 0) >>
    /\ quizzes = [k \in EventIds \X Languages |->
                    IF k[1] = 2 THEN <<QuizA>> ELSE IF k[1] = 10 THEN <<QuizB>> ELSE <<>>]
    /\ cumulative \in {{}, UpsertCumulative({}, AnchorQuiz)}
    /\ cache = [k \in CacheKeys |-> <<>>]
    /\ changes = 0
    /\ calls = 0
    /\ pc = [p \in Procs |-> "idle"]
    /\ req = [p \in Procs |-> NoRequest]
    /\ cached = [p \in Procs |-> <<>>]
    /\ validation = [p \in Procs |-> NoValidation]
    /\ seriesId = [p \in Procs |-> NoSeries]
    /\ seriesEvents = [p \in Procs |-> <<>>]
    /\ individual = [p \in Procs |-> <<>>]
    /\ quiz = [p \in Procs |-> <<>>]
    /\ outcome = [p \in Procs |-> NoOutcome]
    /\ eligibility = NoEligibility
    /\ bulk = NoBulk
    /\ lastSet = [k \in CacheKeys |-> <<>>]
    /\ transcripts = NoTranscripts
    /\ extraction = NoExtraction

\* generate requests for video 3 and for 7, the id of no video
NextAnchor ==
    \/ Call("p1", MaxCalls, {3, 7})
    \/ \E k \in CacheKeys : Expire(k)

SpecAnchor == InitAnchor /\ [][NextAnchor]_vars

\* ------------------------------------------------- the cache and its client
\* the keys and values the client uses
ClientKeys == {CumulativeKey(e, l) : e \in Anchors, l \in Languages}
ClientValues == {EarlierQuiz, AnchorQuiz}

InitCache ==
    /\ events = << EventRow(2, "A", 1, "ready", <<1>>, 1),
                   EventRow(10, "B", 1, "ready", <<>>, 1),
                   EventRow(3, "C", 1, "waiting", <<2>>, 0) >>
    /\ quizzes = [k \in EventIds \X Languages |->
                    IF k[1] = 2 THEN <<QuizA>> ELSE IF k[1] = 10 THEN <<QuizB>> ELSE <<>>]
    /\ cumulative = {}
    /\ cache = [k \in CacheKeys |-> <<>>]
    /\ changes = 0
    /\ calls = 0
    /\ pc = [p \in Procs |-> "idle"]
    /\ req = [p \in Procs |-> NoRequest]
    /\ cached = [p \in Procs |-> <<>>]
    /\ validation = [p \in Procs |-> NoValidation]
    /\ seriesId = [p \in Procs |-> NoSeries]
    /\ seriesEvents = [p \in Procs |-> <<>>]
    /\ individual = [p \in Procs |-> <<>>]
    /\ quiz = [p \in Procs |-> <<>>]
    /\ outcome = [p \in Procs |-> NoOutcome]
    /\ eligibility = NoEligibility
    /\ bulk = NoBulk
    /\ lastSet = [k \in CacheKeys |-> <<>>]
    /\ transcripts = NoTranscripts
    /\ extraction = NoExtraction

clientUnchanged == <<dbVars, changes, calls, eligibility, bulk, pc, req, validation,
                     localVars, outcome, transcripts, extraction>>

\* await cache.set(key, value, ttl)
ClientSet(key, value, ttl) ==
    /\ cache' = CacheSet(cache, key, value, ttl)
    /\ lastSet' = [lastSet EXCEPT ![key] =
                      <<[value |-> value, ttl |-> ttl, age |-> 0, removed |-> FALSE]>>]
    /\ UNCHANGED clientUnchanged

\* await cache.invalidate(key)
ClientInvalidate(key) ==
    /\ cache' = CacheInvalidate(cache, key)
    /\ lastSet' = [lastSet EXCEPT ![key] =
                      IF @ = <<>> THEN <<>> ELSE <<[@[1] EXCEPT !.removed = TRUE]>>]
    /\ UNCHANGED clientUnchanged

\* await cache.clear()
ClientClear ==
    /\ cache' = CacheClear(cache)
    /\ lastSet' = [k \in CacheKeys |->
                      IF lastSet[k] = <<>> THEN <<>>
                      ELSE <<[lastSet[k][1] EXCEPT !.removed = TRUE]>>]
    /\ UNCHANGED clientUnchanged

\* jest.advanceTimersByTime(1000); the age of a set stops counting at its TTL
SecondPasses ==
    /\ cache' = CacheTick(cache)
    /\ lastSet' = [k \in CacheKeys |->
                      IF lastSet[k] = <<>> \/ lastSet[k][1].age >= lastSet[k][1].ttl
                      THEN lastSet[k]
                      ELSE <<[lastSet[k][1] EXCEPT !.age = @ + 1]>>]
    /\ lastSet' # lastSet
    /\ UNCHANGED clientUnchanged

NextCache ==
    \/ \E k \in ClientKeys, v \in ClientValues, ttl \in 1..MaxTtl : ClientSet(k, v, ttl)
    \/ \E k \in ClientKeys : ClientInvalidate(k)
    \/ ClientClear
    \/ SecondPasses

SpecCache == InitCache /\ [][NextCache]_vars

\* ------------------------------------------------ bulk series generation
\* POST /api/admin/series/:seriesId/generate.  Its steps 1 and 2 (transcript,
\* summary) read and write the transcript and summary tables only, which are
\* not variables here: what they leave behind shows as the transcript the
\* quiz step finds or does not find.

\* videoResult.operations.push({type, success, message})
Operation(type, success, message) == [type |-> type, success |-> success, message |-> message]

WithOperation(b, type, success, message) ==
    [b EXCEPT !.operations = Append(@, Operation(type, success, message))]

\* videosWithQuizzes.push(video.id.toString())
WithQuiz(b) == [b EXCEPT !.videosWithQuizzes = Append(@, b.videos[b.i].id)]

\* results.push(videoResult); the loop goes on with the next video or the
\* handler answers with the results
NextVideo(b) ==
    LET pushed == [b EXCEPT !.results = Append(@, [eventId |-> b.videos[b.i].id,
                                                   position |-> b.i,
                                                   operations |-> b.operations]),
                            !.operations = <<>>]
    IN  IF b.i < Len(b.videos)
        THEN [pushed EXCEPT !.i = @ + 1, !.pc = "quiz"]
        ELSE [pushed EXCEPT !.pc = "idle", !.status = 200]

\* the outer catch: res.status(500)
Abort(b) == [b EXCEPT !.pc = "idle", !.status = 500, !.operations = <<>>, !.results = <<>>]

\* step 4 up to its first await: the decision from videosWithQuizzes
CumulativeDecision(b) ==
    LET id == b.videos[b.i].id
        currentVideoHasQuiz == id \in Range(b.videosWithQuizzes)
        previousVideosWithQuizzes == SelectSeq(b.videosWithQuizzes, LAMBDA v : v # id)
    IN  IF ~("cumulative_quiz" \in b.contentTypes /\ b.quizEnabled)
        THEN NextVideo(b)
        ELSE IF ~currentVideoHasQuiz
        THEN NextVideo(WithOperation(b, "cumulative_quiz", FALSE,
                                     "Video needs a regular quiz first"))
        ELSE IF previousVideosWithQuizzes = <<>>
        THEN NextVideo(WithOperation(b, "cumulative_quiz", FALSE,
                                     "No previous videos with quizzes (this is the first)"))
        ELSE [b EXCEPT !.pc = "cumulativeExisting"]

\* the request arrives
StartBulk(series, language, contentTypes, force) ==
    /\ bulk.pc = "idle"
    /\ bulk.runs < MaxRuns
    /\ bulk' = [NoBulk EXCEPT !.pc = "videosQuery", !.runs = bulk.runs + 1,
                              !.seriesId = series, !.language = language,
                              !.contentTypes = contentTypes, !.forceRegenerate = force]
    /\ UNCHANGED <<dbVars, cache, changes, calls, pc, req, validation, localVars, outcome,
                   eligibility, lastSet, transcripts, extraction>>

\* the videos of the series: WHERE e.series = $1 AND e.state = 'ready' with
\* the ORDER BY of the resolver; 404 when there is none
BulkVideosQuery ==
    /\ bulk.pc = "videosQuery"
    /\ \E fail \in BOOLEAN :
          IF fail THEN bulk' = Abort(bulk)
          ELSE LET videos == OrderedEvents(events, bulk.seriesId)
               IN  IF videos = <<>>
                   THEN bulk' = [bulk EXCEPT !.pc = "idle", !.status = 404]
                   ELSE bulk' = [bulk EXCEPT !.pc = "toggles", !.videos = videos]
    /\ UNCHANGED <<dbVars, cache, changes, calls, pc, req, validation, localVars, outcome,
                   eligibility, lastSet, transcripts, extraction>>

\* await db.isSummaryEnabled(); await db.isQuizEnabled(); then the loop starts
BulkToggles ==
    /\ bulk.pc = "toggles"
    /\ \E fail \in BOOLEAN, enabled \in BOOLEAN :
          IF fail THEN bulk' = Abort(bulk)
          ELSE bulk' = [bulk EXCEPT !.pc = "quiz", !.quizEnabled = enabled, !.i = 1]
    /\ UNCHANGED <<dbVars, cache, changes, calls, pc, req, validation, localVars, outcome,
                   eligibility, lastSet, transcripts, extraction>>

\* step 3 up to generateQuiz: the transcript is read (outside the try), then
\* the ai_quizzes row of the video; without 'quiz' among the content types
\* only the row is read (outside any try)
BulkQuiz ==
    /\ bulk.pc = "quiz"
    /\ LET key == <<bulk.videos[bulk.i].id, bulk.language>>
       IN  IF "quiz" \in bulk.contentTypes
           THEN IF ~bulk.quizEnabled
                THEN bulk' = CumulativeDecision(
                                WithOperation(bulk, "quiz", FALSE, "Quiz feature disabled"))
                ELSE \E transcript \in {"row", "none", "error"}, fail \in BOOLEAN :
                        IF transcript = "error" THEN bulk' = Abort(bulk)
                        ELSE IF transcript = "none"
                        THEN bulk' = CumulativeDecision(
                                        WithOperation(bulk, "quiz", FALSE, "No transcript available"))
                        ELSE IF fail
                        THEN bulk' = CumulativeDecision(
                                        WithOperation(bulk, "quiz", FALSE, "query failed"))
                        ELSE IF quizzes[key] # <<>> /\ ~bulk.forceRegenerate
                        THEN bulk' = CumulativeDecision(
                                        WithOperation(WithQuiz(bulk), "quiz", TRUE, "Already exists"))
                        ELSE bulk' = [bulk EXCEPT !.pc = "quizGenerate"]
           ELSE \E fail \in BOOLEAN :
                   IF fail THEN bulk' = Abort(bulk)
                   ELSE IF quizzes[key] # <<>>
                   THEN bulk' = CumulativeDecision(WithQuiz(bulk))
                   ELSE bulk' = CumulativeDecision(bulk)
    /\ UNCHANGED <<dbVars, cache, changes, calls, pc, req, validation, localVars, outcome,
                   eligibility, lastSet, transcripts, extraction>>

\* openai.generateQuiz(transcript) and the upsert of ai_quizzes; an error of
\* either is caught and the video is not pushed to videosWithQuizzes
BulkQuizGenerate ==
    /\ bulk.pc = "quizGenerate"
    /\ LET key == <<bulk.videos[bulk.i].id, bulk.language>>
       IN  \E ok \in BOOLEAN, data \in QuizPool :
              IF ~ok
              THEN /\ bulk' = CumulativeDecision(
                                 WithOperation(bulk, "quiz", FALSE, "generation failed"))
                   /\ UNCHANGED <<quizzes, changes>>
              ELSE /\ quizzes' = [quizzes EXCEPT ![key] = <<data>>]
                   /\ changes' = changes + 1
                   /\ bulk' = CumulativeDecision(
                                 WithOperation(WithQuiz(bulk), "quiz", TRUE,
                                               IF quizzes[key] # <<>> THEN "Regenerated"
                                               ELSE "Generated"))
    /\ UNCHANGED <<events, cumulative, cache, calls, pc, req, validation, localVars, outcome,
                   eligibility, lastSet, transcripts, extraction>>

\* BulkCumulativeExisting that calls generateCumulativeQuiz also when a record
\* exists and forceRegenerate is false
BulkCumulativeAlwaysCalls ==
    /\ bulk.pc = "cumulativeExisting"
    /\ LET id == bulk.videos[bulk.i].id
           rows == CumulativeRows(cumulative, id, bulk.language)
       IN  \E fail \in BOOLEAN :
              IF fail
              THEN /\ bulk' = NextVideo(WithOperation(bulk, "cumulative_quiz", FALSE, "query failed"))
                   /\ UNCHANGED <<calls, pc, req, validation>>
              ELSE /\ Begin("p1", id, bulk.language, bulk.forceRegenerate)
                   /\ bulk' = [bulk EXCEPT !.pc = "cumulativeGenerate", !.existing = rows # {}]
    /\ UNCHANGED <<dbVars, cache, changes, localVars, outcome, eligibility, lastSet, transcripts, extraction>>

\* step 4 after the decision: SELECT id FROM ai_cumulative_quizzes ..., then
\* 'Already exists' or the call of generateCumulativeQuiz
BulkCumulativeExisting ==
    /\ bulk.pc = "cumulativeExisting"
    /\ LET id == bulk.videos[bulk.i].id
           rows == CumulativeRows(cumulative, id, bulk.language)
       IN  \E fail \in BOOLEAN :
              IF fail
              THEN /\ bulk' = NextVideo(WithOperation(bulk, "cumulative_quiz", FALSE, "query failed"))
                   /\ UNCHANGED <<calls, pc, req, validation>>
              ELSE IF rows # {} /\ ~bulk.forceRegenerate
              THEN /\ bulk' = NextVideo(WithOperation(bulk, "cumulative_quiz", TRUE, "Already exists"))
                   /\ UNCHANGED <<calls, pc, req, validation>>
              ELSE /\ Begin("p1", id, bulk.language, bulk.forceRegenerate)
                   /\ bulk' = [bulk EXCEPT !.pc = "cumulativeGenerate", !.existing = rows # {}]
    /\ UNCHANGED <<dbVars, cache, changes, localVars, outcome, eligibility, lastSet, transcripts, extraction>>

\* generateCumulativeQuiz has returned or thrown
BulkCumulativeDone ==
    /\ bulk.pc = "cumulativeGenerate"
    /\ pc["p1"] = "idle"
    /\ bulk' = IF outcome["p1"].kind = "error"
               THEN NextVideo(WithOperation(bulk, "cumulative_quiz", FALSE, outcome["p1"].error))
               ELSE NextVideo(WithOperation(bulk, "cumulative_quiz", TRUE,
                                            IF bulk.existing THEN "Regenerated" ELSE "Generated"))
    /\ UNCHANGED <<dbVars, cache, changes, calls, pc, req, validation, localVars, outcome,
                   eligibility, lastSet, transcripts, extraction>>

\* the content types of a request
BulkContentTypes == {{"quiz"}, {"cumulative_quiz"}, {"quiz", "cumulative_quiz"}}

InitBulk ==
    /\ events = << EventRow(2, "A", 1, "ready", <<1>>, 1),
                   EventRow(10, "B", 1, "ready", <<>>, 1),
                   EventRow(3, "C", 1, "waiting", <<2>>, 0) >>
    /\ quizzes \in {qt \in [EventIds \X Languages -> {<<>>, <<QuizA>>}] :
                       qt[<<3, "en">>] = <<>>}
    /\ \E stored \in BOOLEAN :
          /\ cumulative = IF stored THEN UpsertCumulative({}, EarlierQuiz) ELSE {}
          /\ cache = IF stored
                     THEN CacheSet([k \in CacheKeys |-> <<>>], CumulativeKey(10, "en"),
                                   EarlierQuiz, CumulativeTtl)
                     ELSE [k \in CacheKeys |-> <<>>]
    /\ changes = 0
    /\ calls = 0
    /\ pc = [p \in Procs |-> "idle"]
    /\ req = [p \in Procs |-> NoRequest]
    /\ cached = [p \in Procs |-> <<>>]
    /\ validation = [p \in Procs |-> NoValidation]
    /\ seriesId = [p \in Procs |-> NoSeries]
    /\ seriesEvents = [p \in Procs |-> <<>>]
    /\ individual = [p \in Procs |-> <<>>]
    /\ quiz = [p \in Procs |-> <<>>]
    /\ outcome = [p \in Procs |-> NoOutcome]
    /\ eligibility = NoEligibility
    /\ bulk = NoBulk
    /\ lastSet = [k \in CacheKeys |-> <<>>]
    /\ transcripts = NoTranscripts
    /\ extraction = NoExtraction

\* the steps of the handler, those of the generateCumulativeQuiz call it
\* awaits, and a generate request for video 10 that arrived on the other
\* connection before
NextBulk ==
    \/ \E c \in BulkContentTypes, f \in BOOLEAN : StartBulk(1, "en", c, f)
    \/ BulkVideosQuery
    \/ BulkToggles
    \/ BulkQuiz
    \/ BulkQuizGenerate
    \/ BulkCumulativeExisting
    \/ BulkCumulativeDone
    \/ GetCachedFromCache("p1")
    \/ GetCachedFromDb("p1")
    \/ ReCache("p1")
    \/ Validate("p1")
    \/ EventQuery("p1")
    \/ Resolve("p1")
    \/ \E i \in 1..Cardinality(EventIds) : FetchIndividual("p1", i)
    \/ SaveToDb("p1")
    \/ SaveToCache("p1")
    \/ Call("p2", MaxRuns, {10})

SpecBulk == InitBulk /\ [][NextBulk]_vars

\* the bulk run on a series that has grown since the stored quiz was built:
\* video 3 is a ready member between 2 and 10, the record and the cache entry
\* of video 10 are the quiz over 2 and 10
InitBulkStale ==
    /\ events = << EventRow(2, "A", 1, "ready", <<1>>, 1),
                   EventRow(10, "B", 1, "ready", <<>>, 1),
                   EventRow(3, "C", 1, "ready", <<2>>, 0) >>
    /\ quizzes \in {qt \in [EventIds \X Languages -> {<<>>, <<QuizA>>}] :
                       qt[<<3, "en">>] = <<>>}
    /\ cumulative = UpsertCumulative({}, EarlierQuiz)
    /\ cache = CacheSet([k \in CacheKeys |-> <<>>], CumulativeKey(10, "en"),
                        EarlierQuiz, CumulativeTtl)
    /\ changes = 0
    /\ calls = 0
    /\ pc = [p \in Procs |-> "idle"]
    /\ req = [p \in Procs |-> NoRequest]
    /\ cached = [p \in Procs |-> <<>>]
    /\ validation = [p \in Procs |-> NoValidation]
    /\ seriesId = [p \in Procs |-> NoSeries]
    /\ seriesEvents = [p \in Procs |-> <<>>]
    /\ individual = [p \in Procs |-> <<>>]
    /\ quiz = [p \in Procs |-> <<>>]
    /\ outcome = [p \in Procs |-> NoOutcome]
    /\ eligibility = NoEligibility
    /\ bulk = NoBulk
    /\ lastSet = [k \in CacheKeys |-> <<>>]
    /\ transcripts = NoTranscripts
    /\ extraction = NoExtraction

\* a bulk run for cumulative quizzes only; the record of video 10 exists, so
\* the handler calls generateCumulativeQuiz for it only with forceRegenerate,
\* and the call starts at step 2
NextBulkStale ==
    \/ \E f \in BOOLEAN : StartBulk(1, "en", {"cumulative_quiz"}, f)
    \/ BulkVideosQuery
    \/ BulkToggles
    \/ BulkQuiz
    \/ BulkCumulativeExisting
    \/ BulkCumulativeDone
    \/ EventQuery("p1")
    \/ Resolve("p1")
    \/ \E i \in 1..Cardinality(EventIds) : FetchIndividual("p1", i)
    \/ SaveToDb("p1")
    \/ SaveToCache("p1")

SpecBulkStale == InitBulkStale /\ [][NextBulkStale]_vars

\* --------------------------------------------- reordering inside the prefix
\* creation times the portal may give a video
CreationTimes == 0..2

\* videos 2, 3 and 10 are ready members of series 1, in the order 2, 3, 10
\* when 2 and 3 carry their hints and 3, 2, 10 when neither has one
InitReorder ==
    /\ \E h \in BOOLEAN :
          events = << EventRow(2, "A", 1, "ready", IF h THEN <<1>> ELSE <<>>, 1),
                      EventRow(3, "C", 1, "ready", IF h THEN <<2>> ELSE <<>>, 0),
                      EventRow(10, "B", 1, "ready", <<>>, 1) >>
    /\ quizzes = [k \in EventIds \X Languages |->
                    IF k[1] = 2 THEN <<QuizA>> ELSE IF k[1] = 10 THEN <<QuizB>> ELSE <<>>]
    /\ cumulative = {}
    /\ cache = [k \in CacheKeys |-> <<>>]
    /\ changes = 0
    /\ calls = 0
    /\ pc = [p \in Procs |-> "idle"]
    /\ req = [p \in Procs |-> NoRequest]
    /\ cached = [p \in Procs |-> <<>>]
    /\ validation = [p \in Procs |-> NoValidation]
    /\ seriesId = [p \in Procs |-> NoSeries]
    /\ seriesEvents = [p \in Procs |-> <<>>]
    /\ individual = [p \in Procs |-> <<>>]
    /\ quiz = [p \in Procs |-> <<>>]
    /\ outcome = [p \in Procs |-> NoOutcome]
    /\ eligibility = NoEligibility
    /\ bulk = NoBulk
    /\ lastSet = [k \in CacheKeys |-> <<>>]
    /\ transcripts = NoTranscripts
    /\ extraction = NoExtraction

\* generate requests for video 10 while the portal rewrites the order hint or
\* the creation time of an earlier video
NextReorder ==
    \/ Call("p1", MaxCalls, {10})
    \/ \E k \in CacheKeys : Expire(k)
    \/ /\ changes < MaxChanges
       /\ \/ \E e \in {2, 3}, o \in OrderHints : SetEventOrder(e, o)
          \/ \E e \in {2, 3}, c \in CreationTimes : SetEventCreated(e, c)

SpecReorder == InitReorder /\ [][NextReorder]_vars


\* ------------------------------------------------- reading the stored quiz
\* the steps of a GET /api/cumulative-quizzes/:eventId request of connection p
GetCumulativeQuiz(p, anchors) ==
    \/ \E e \in anchors, l \in {<<>>} \cup {<<x>> : x \in Languages} :
          StartGetCumulativeQuiz(p, e, l)
    \/ GetQuizFromCache(p)
    \/ GetQuizFromDb(p)
    \/ GetQuizReCache(p)

\* generate requests for video 10 on one connection, reads of its quiz on the
\* other, while video 3 enters or leaves the ready members and the record is
\* deleted or its cache entry expires
NextGet ==
    \/ Call("p1", MaxCalls, {10})
    \/ GetCumulativeQuiz("p2", {10})
    \/ \E l \in Languages : DeleteCumulativeQuiz(10, l)
    \/ \E k \in CacheKeys : Expire(k)
    \/ /\ changes < MaxChanges
       /\ \E st \in {"ready", "waiting"} : SetEventState(3, st)

SpecGet == Init /\ [][NextGet]_vars


\* ------------------------------------ position and prefix on drawn tables
\* one request at a time on a drawn table whose data does not change: forced
\* generate requests and eligibility checks for video 10, while the scan
\* order of the rows may differ from query to query
NextPosition ==
    \/ /\ eligibility.pc = "idle"
       /\ \/ calls < MaxRuns /\ \E l \in Languages : Start("p1", 10, l, TRUE)
          \/ EventQuery("p1")
          \/ Resolve("p1")
          \/ \E i \in 1..Cardinality(EventIds) : FetchIndividual("p1", i)
          \/ SaveToDb("p1")
          \/ SaveToCache("p1")
    \/ /\ pc["p1"] = "idle"
       /\ \/ \E l \in Languages : StartCheckEligibility(10, l)
          \/ CheckEventQuery
          \/ CheckQuizQuery
          \/ CheckPositionQuery
          \/ CheckPreviousQuizzesQuery
    \/ \E f \in Permutations(DOMAIN events) : ScanOrderChanges(f)

SpecPosition == InitResolver /\ [][NextPosition]_vars


\* ------------------------------------------ individual quizzes and the cache
\* the language parameter of a request: missing, or one of the languages
LanguageParameters == {<<>>} \cup {<<l>> : l \in Languages}

\* reads, direct generations and admin edits of the quizzes of videos 2 and
\* 3, and a bulk run over series 1 that generates quizzes only
NextQuiz ==
    \/ \E e \in {2, 3}, l \in LanguageParameters : GetQuiz("p2", e, l)
    \/ /\ changes < MaxChanges
       /\ \/ \E e \in {2, 3}, l \in LanguageParameters, f \in BOOLEAN :
                GenerateQuiz("p2", e, l, f)
          \/ \E e \in {2, 3}, l \in LanguageParameters, d \in {<<>>, <<QuizB>>} :
                UpdateQuiz("p2", e, l, d)
    \/ \E f \in BOOLEAN : StartBulk(1, "en", {"quiz"}, f)
    \/ BulkVideosQuery
    \/ BulkToggles
    \/ BulkQuiz
    \/ BulkQuizGenerate

SpecQuiz == Init /\ [][NextQuiz]_vars


\* ------------------------------------------------------ caption extraction
\* extractForEvent calls for videos 2 and 3, one after the other
NextExtract ==
    \/ \E e \in {2, 3}, l \in RawLanguages : StartExtractForEvent(e, l)
    \/ GetFromEventTexts
    \/ SaveEventTexts
    \/ CaptionQuery
    \/ FetchAndParseCaption
    \/ SaveCaption

SpecExtract == Init /\ [][NextExtract]_vars


\* ------------------------------------------------------------------ claims
\* the quizzes held by the fast cache and by the durable store
CachedQuizzes == {cache[k][1].value : k \in {c \in CacheKeys : cache[c] # <<>>}}
StoredQuizzes == {QuizOfRow(r) : r \in cumulative}

\* the quizzes a connection has been sent
ReturnedQuizzes == {outcome[p].quiz[1] : p \in {c \in Procs : outcome[c].quiz # <<>>}}

\* equal in every field except processingTimeMs
SameContent(a, b) ==
    /\ a.eventId = b.eventId
    /\ a.seriesId = b.seriesId
    /\ a.language = b.language
    /\ a.model = b.model
    /\ a.questions = b.questions
    /\ a.includedEventIds = b.includedEventIds
    /\ a.videoCount = b.videoCount

\* connection p has just been answered and the answer is the one in outcome[p]
Answered(p) == pc[p] = "idle" /\ outcome[p].kind # "none"

\* C1: a non-forced generate that returns a stored quiz has run isCacheValid
\* on exactly that quiz in the same call, the resolver query succeeded and the
\* sorted ids it returned equal the quiz's sorted includedEventIds; a quiz
\* that failed the check is not returned, the call is on the recompute path.
C1_ServedOnlyWhenValid ==
    \A p \in Procs :
        /\ (Answered(p) /\ outcome[p].kind = "cached") =>
              /\ ~outcome[p].request.forceRegenerate
              /\ validation[p].ran /\ ~validation[p].failed /\ validation[p].valid
              /\ SortIds(validation[p].currentEventIds)
                    = SortIds(outcome[p].quiz[1].includedEventIds)
              /\ outcome[p].quiz[1].eventId = outcome[p].request.eventId
        /\ (validation[p].ran /\ ~validation[p].valid) =>
              /\ pc[p] \in {"eventQuery", "resolve", "fetch", "saveDb", "cacheSet", "idle"}
              /\ Answered(p) => outcome[p].kind \in {"generated", "error"}

C1_Witness ==
    /\ Answered("p1") /\ outcome["p1"].kind = "cached"
    /\ outcome["p1"].quiz[1].includedEventIds = <<2, 10>>

\* C2: for every stored quiz, isCacheValid is true exactly when the set of
\* ids the resolver returns now for (seriesId, eventId) is the set of ids in
\* includedEventIds.
C2_ValidIffSameMemberSet ==
    \A q \in CachedQuizzes \cup StoredQuizzes :
        IsCacheValid(events, q)
            <=> (Range(Ids(GetSeriesEventsUpTo(events, q.seriesId, q.eventId)))
                    = Range(q.includedEventIds))

\* a quiz over {2, 10} is stored and video 3 is now positioned before 10;
\* another stored quiz is still valid
C2_Witness ==
    /\ \E q \in StoredQuizzes :
          /\ q.includedEventIds = <<2, 10>>
          /\ Ids(GetSeriesEventsUpTo(events, q.seriesId, q.eventId)) = <<2, 3, 10>>
          /\ ~IsCacheValid(events, q)
    /\ \E q \in StoredQuizzes : Len(q.includedEventIds) > 1 /\ IsCacheValid(events, q)

\* C3: a quiz for anchor b over <<a, b>> is stored, then c becomes positioned
\* between a and b.  When a non-forced generate validates the stored quiz,
\* isCacheValid is false and the call goes on to recompute; when the data does
\* not change during the call, its upsert leaves a record with included ids
\* <<a, c, b>> and video count 3.
C3_StaleThenRegenerated ==
    [][\A p \in Procs :
          /\ (/\ pc[p] = "validate" /\ pc'[p] # "validate"
              /\ Len(cached[p][1].includedEventIds) = 2
              /\ cached[p][1].includedEventIds[2] = cached[p][1].eventId
              /\ LET now == Ids(GetSeriesEventsUpTo(events, cached[p][1].seriesId,
                                                    cached[p][1].eventId))
                 IN  /\ Len(now) = 3
                     /\ now[1] = cached[p][1].includedEventIds[1]
                     /\ now[3] = cached[p][1].includedEventIds[2])
             => /\ validation'[p].ran /\ ~validation'[p].valid
                /\ pc'[p] = "eventQuery"
          /\ (/\ pc[p] = "saveDb" /\ pc'[p] = "cacheSet"
              /\ ~req[p].forceRegenerate
              /\ req[p].epoch = changes
              /\ cached[p] # <<>>
              /\ Len(cached[p][1].includedEventIds) = 2
              /\ Len(validation[p].currentEventIds) = 3
              /\ validation[p].currentEventIds[1] = cached[p][1].includedEventIds[1]
              /\ validation[p].currentEventIds[3] = cached[p][1].includedEventIds[2])
             => \E r \in CumulativeRows(cumulative', req[p].eventId, req[p].language) :
                   /\ r.included_event_ids = validation[p].currentEventIds
                   /\ r.video_count = 3]_vars

\* the regenerating call has stored <<2, 3, 10>> in place of <<2, 10>>
C3_Witness ==
    /\ pc["p1"] = "cacheSet"
    /\ ~req["p1"].forceRegenerate
    /\ req["p1"].epoch = changes
    /\ cached["p1"] # <<>>
    /\ cached["p1"][1].includedEventIds = <<2, 10>>
    /\ validation["p1"].currentEventIds = <<2, 3, 10>>
    /\ \E r \in cumulative : r.event_id = 10 /\ r.included_event_ids = <<2, 3, 10>>
                            /\ r.video_count = 3

\* C4: when DELETE /api/cumulative-quizzes/:eventId deletes the record, the
\* cache entry of the key is gone as well.
C4_DeleteInvalidatesCache ==
    [][\A e \in EventIds, l \in Languages :
          DeleteCumulativeQuiz(e, l) => CacheGet(cache', CumulativeKey(e, l)) = <<>>]_vars

\* C5: after the upsert of a recomputing generate the durable record equals
\* the new quiz in series id, model, questions, included ids and video count.
C5_RecordFullyReplaced ==
    [][\A p \in Procs :
          (pc[p] = "saveDb" /\ pc'[p] = "cacheSet")
          => \A r \in CumulativeRows(cumulative', req[p].eventId, req[p].language) :
                SameContent(QuizOfRow(r), quiz[p][1])]_vars

\* C6: when the resolver query fails inside isCacheValid, isCacheValid gives
\* false and the call does not return the stored quiz: it is on the recompute
\* path or has ended there.
C6_FailClosed ==
    \A p \in Procs :
        validation[p].failed =>
            /\ ~validation[p].valid
            /\ pc[p] \in {"eventQuery", "resolve", "fetch", "saveDb", "cacheSet", "idle"}
            /\ Answered(p) => outcome[p].kind \in {"generated", "error"}

\* the query failed for a stored quiz whose member set is still current
C6_Witness ==
    /\ pc["p1"] = "eventQuery"
    /\ validation["p1"].failed
    /\ cached["p1"] # <<>>
    /\ IsCacheValid(events, cached["p1"][1])

\* C7: two generate calls for the same key that overlapped with each other
\* and with no other call have both been answered, and nothing changed in
\* all_events or ai_quizzes since either started: the store holds exactly one record for the key, and the record and
\* the cache entry equal both results except for the processing time.
C7_OverlappingCallsAgree ==
    (/\ \A p \in Procs : /\ Answered(p)
                         /\ outcome[p].kind \in {"cached", "generated"}
                         /\ outcome[p].request.epoch = changes
     /\ \E p, q \in Procs : /\ outcome[p].request.inFlight = {}
                             /\ outcome[q].request.inFlight = {outcome[p].request.seq}
     /\ outcome["p1"].request.eventId = outcome["p2"].request.eventId
     /\ outcome["p1"].request.language = outcome["p2"].request.language)
    => LET rows == CumulativeRows(cumulative, outcome["p1"].request.eventId,
                                  outcome["p1"].request.language)
           entry == CacheGet(cache, CumulativeKey(outcome["p1"].request.eventId,
                                                  outcome["p1"].request.language))
       IN  /\ Cardinality(rows) = 1
           /\ entry # <<>>
           /\ \A p \in Procs :
                 /\ \A r \in rows : SameContent(QuizOfRow(r), outcome[p].quiz[1])
                 /\ SameContent(entry[1], outcome[p].quiz[1])

C9_OneRecordPerKey ==
    \A r1, r2 \in cumulative :
        (r1.event_id = r2.event_id /\ r1.language = r2.language) => r1 = r2

\* a second successful generate has upserted a different quiz for a key that
\* already had a record
C9_Witness ==
    /\ pc["p1"] = "cacheSet"
    /\ outcome["p1"].kind = "generated"
    /\ outcome["p1"].request.eventId = req["p1"].eventId
    /\ outcome["p1"].quiz # quiz["p1"]
    /\ Cardinality(CumulativeRows(cumulative, req["p1"].eventId, req["p1"].language)) = 1

\* C10: every quiz that was returned, is in the durable store or is in the fast
\* cache has videoCount = length of includedEventIds, and videoCount >= 1.
C10_VideoCountIsMemberCount ==
    \A q \in ReturnedQuizzes \cup StoredQuizzes \cup CachedQuizzes :
        q.videoCount = Len(q.includedEventIds) /\ q.videoCount >= 1

\* a record was replaced by a quiz with another number of members, which was
\* returned and cached
C10_Witness ==
    /\ Answered("p1") /\ outcome["p1"].kind = "generated"
    /\ outcome["p1"].quiz[1].videoCount = 3
    /\ outcome["p1"].quiz[1] \in StoredQuizzes \cap CachedQuizzes
    /\ validation["p1"].ran /\ Len(validation["p1"].currentEventIds) = 3

\* C11: the quiz a recomputing call builds lists in includedEventIds exactly
\* the ids of the rows getSeriesEventsUpTo returned in that call, in the same
\* order; the rows carry the positions 1..k and the last id is the anchor, in
\* the quiz being saved and in the quiz that was returned.
C11_IncludedIdsAreResolvedList ==
    \A p \in Procs :
        /\ quiz[p] # <<>> =>
              /\ quiz[p][1].includedEventIds = Ids(seriesEvents[p])
              /\ \A i \in DOMAIN seriesEvents[p] : seriesEvents[p][i].position = i
              /\ quiz[p][1].includedEventIds[Len(quiz[p][1].includedEventIds)]
                    = req[p].eventId
        /\ (Answered(p) /\ outcome[p].kind = "generated") =>
              outcome[p].quiz[1].includedEventIds[Len(outcome[p].quiz[1].includedEventIds)]
                 = outcome[p].request.eventId

\* the resolver returned 2, 3, 10 (not the order the ids sort in) and the quiz
\* was built from it
C11_Witness ==
    /\ pc["p1"] = "saveDb"
    /\ Ids(seriesEvents["p1"]) = <<2, 3, 10>>
    /\ quiz["p1"][1].includedEventIds = <<2, 3, 10>>

\* C12: when a non-forced generate validates a stored quiz whose member set
\* is the set the resolver returns now, and the resolver query succeeds,
\* isCacheValid is true and the call returns the stored quiz as it is,
\* whatever the individual quizzes of its members hold now.
C12_QuestionEditsKeepQuizValid ==
    [][\A p \in Procs :
          (/\ pc[p] = "validate" /\ pc'[p] # "validate"
           /\ ~validation'[p].failed
           /\ Range(Ids(GetSeriesEventsUpTo(events, cached[p][1].seriesId,
                                            cached[p][1].eventId)))
                 = Range(cached[p][1].includedEventIds))
          => /\ validation'[p].valid
             /\ pc'[p] = "idle"
             /\ outcome'[p].kind = "cached"
             /\ outcome'[p].quiz = cached[p]]_vars

\* a stored quiz was returned although the individual quiz of one of its
\* members was replaced or deleted after it was built
C12_Witness ==
    /\ Answered("p1") /\ outcome["p1"].kind = "cached"
    /\ LET q == outcome["p1"].quiz[1]
           now == GetSeriesEventsUpTo(events, q.seriesId, q.eventId)
       IN  /\ Ids(now) = q.includedEventIds
           /\ Len(q.questions) > 0
           /\ q.questions #
                 CombineQuizzes([i \in DOMAIN now |->
                                    IndividualQuiz(quizzes, now[i].id, q.language)], now)

\* C13: when a recomputing generate returns quiz Q, the cache entry of the
\* key holds Q with TTL 604800, so getCachedQuiz returns Q, and the durable
\* record of the key (unless it was deleted during the call) maps to Q.
C13_ReturnedQuizIsStoredAndCached ==
    [][\A p \in Procs :
          (pc[p] = "cacheSet" /\ pc'[p] = "idle")
          => /\ outcome'[p].kind = "generated"
             /\ cache'[Key(p)] = <<[value |-> outcome'[p].quiz[1], ttl |-> CumulativeTtl]>>
             /\ CacheGet(cache', Key(p)) = outcome'[p].quiz
             /\ \A r \in CumulativeRows(cumulative', req[p].eventId, req[p].language) :
                   QuizOfRow(r) = outcome'[p].quiz[1]]_vars

\* C17: when the anchor is not among the ready videos of the series, the
\* resolver signals an error: a resolver call that did not fail never hands
\* its caller (here isCacheValid) an empty list.
C17_AbsentAnchorIsError ==
    \A p \in Procs :
        (validation[p].ran /\ ~validation[p].failed)
            => validation[p].currentEventIds # <<>>

\* the row of all_events with this id
RowOf(id) == events[IndexOf(id)]

\* a comes before b in the order the specification gives: a video with a hint
\* before a video without, smaller hint first, equal hints (or none on both)
\* by creation time
HintPrecedes(a, b) ==
    \/ a.order # <<>> /\ b.order = <<>>
    \/ a.order # <<>> /\ b.order # <<>> /\ a.order[1] < b.order[1]
    \/ a.order = b.order /\ a.created < b.created

\* C14: in the list the resolver returned, every ready video of the series
\* that comes before a listed video by (hint before no hint, ascending hint,
\* ascending creation time) is listed before it; for every integer hint.
C14_HintedBeforeUnhinted ==
    \A p \in Procs : \A i \in DOMAIN seriesEvents[p] : \A y \in DOMAIN events :
        (/\ events[y].series = seriesId[p]
         /\ events[y].state = "ready"
         /\ HintPrecedes(events[y], RowOf(seriesEvents[p][i].id)))
        => \E j \in 1..(i - 1) : seriesEvents[p][j].id = events[y].id

\* C15: the data of all_events never changes in this specification; when a
\* call resolves the same (series, anchor) as the preceding generating call
\* of the connection, it gets the same ordered list.
C15_SameSnapshotSameOrder ==
    [][\A p \in Procs :
          (/\ pc[p] = "resolve" /\ pc'[p] = "fetch"
           /\ outcome[p].kind = "generated"
           /\ outcome[p].request.eventId = req[p].eventId
           /\ outcome[p].quiz[1].seriesId = seriesId[p])
          => Ids(seriesEvents'[p]) = outcome[p].quiz[1].includedEventIds]_vars

\* (order key, created) of a is strictly below that of b
KeyBelow(a, b) ==
    \/ OrderKey(a) < OrderKey(b)
    \/ OrderKey(a) = OrderKey(b) /\ a.created < b.created

\* C16: the list the resolver returned for a ready anchor of the series has
\* positions 1..k, no id twice and the anchor last; every listed video is a
\* ready video of the series not positioned after the anchor, and every ready
\* video of the series positioned before the anchor is listed.
C16_ReadyPrefixUpToAnchor ==
    \A p \in Procs :
        seriesEvents[p] # <<>> =>
            LET rows == seriesEvents[p]
                anchor == RowOf(req[p].eventId)
            IN  /\ \A i \in DOMAIN rows : rows[i].position = i
                /\ \A i, j \in DOMAIN rows : rows[i].id = rows[j].id => i = j
                /\ rows[Len(rows)].id = req[p].eventId
                /\ \A i \in DOMAIN rows :
                      /\ RowOf(rows[i].id).series = seriesId[p]
                      /\ RowOf(rows[i].id).state = "ready"
                      /\ ~KeyBelow(anchor, RowOf(rows[i].id))
                /\ \A i, j \in DOMAIN rows :
                      i < j => ~KeyBelow(RowOf(rows[j].id), RowOf(rows[i].id))
                /\ \A y \in DOMAIN events :
                      (/\ events[y].series = seriesId[p]
                       /\ events[y].state = "ready"
                       /\ KeyBelow(events[y], anchor))
                      => events[y].id \in Range(Ids(rows))

\* anchor 10 is resolved to <<3, 10>> while ready video 2 of the series is
\* positioned after it, or to itself and one other video while video 3 would
\* be positioned before it but is not ready or is in the other series
C16_Witness ==
    /\ pc["p1"] = "fetch"
    /\ Len(seriesEvents["p1"]) = 2
    /\ \/ /\ Ids(seriesEvents["p1"]) = <<3, 10>>
          /\ KeyBelow(RowOf(10), RowOf(2))
       \/ /\ Ids(seriesEvents["p1"]) = <<2, 10>>
          /\ KeyBelow(RowOf(3), RowOf(10))
          /\ RowOf(3).state = "waiting" \/ RowOf(3).series = 2

\* checkEligibility has returned, no query of the call failed and nothing
\* changed in all_events or ai_quizzes since the call started
Checked ==
    /\ eligibility.pc = "idle"
    /\ eligibility.result # <<>>
    /\ eligibility.epoch = changes
    /\ eligibility.result[1].reason # ReasonError

\* what the tables say about video e now
ExistsAndReady(e) == \E i \in DOMAIN events : events[i].id = e /\ events[i].state = "ready"
HasSeries(e) == RowOf(e).series # NoSeries
HasQuiz(e, l) == e \in EventIds /\ quizzes[<<e, l>>] # <<>>

\* the ready videos of the series of e positioned strictly before e
Predecessors(e) ==
    {events[i].id : i \in {j \in DOMAIN events :
                              /\ events[j].series = RowOf(e).series
                              /\ events[j].state = "ready"
                              /\ RowPrecedes(events, j, IndexOf(e))}}

\* C18: checkEligibility returns eligible = true exactly when the video
\* exists and is ready, has a series, has an individual quiz for the language
\* and a ready video positioned strictly before it in the series has one too
\* (for a call whose queries succeed on unchanged data).
C18_EligibleIffAllGatesPass ==
    Checked =>
        LET e == eligibility.eventId
            l == eligibility.language
        IN  eligibility.result[1].eligible
               <=> /\ ExistsAndReady(e)
                   /\ HasSeries(e)
                   /\ HasQuiz(e, l)
                   /\ \E y \in Predecessors(e) : HasQuiz(y, l)

\* video 10 is found eligible with a predecessor that has a quiz and one that
\* has none
C18_Witness ==
    /\ Checked
    /\ eligibility.eventId = 10
    /\ eligibility.result[1].eligible
    /\ Predecessors(10) = {2, 3}
    /\ \E y \in Predecessors(10) : ~HasQuiz(y, "en")

\* the reason of the first gate that fails for video e, in the order of the
\* gates
FirstFailingGate(e, l) ==
    IF ~ExistsAndReady(e) THEN ReasonNotFound
    ELSE IF ~HasSeries(e) THEN ReasonNoSeries
    ELSE IF ~HasQuiz(e, l) THEN ReasonNoQuiz
    ELSE IF Predecessors(e) = {} THEN ReasonFirstVideo
    ELSE IF ~\E y \in Predecessors(e) : HasQuiz(y, l) THEN ReasonNoPreviousQuiz
    ELSE ReasonEligible

\* C19: checkEligibility returns the reason of the first gate that fails, the
\* gates taken in the order exists and ready, has a series, has its own quiz,
\* has a predecessor, a predecessor has a quiz; the reasons differ from each
\* other.
C19_FirstFailingGateWins ==
    /\ Cardinality({ReasonNotFound, ReasonNoSeries, ReasonNoQuiz, ReasonFirstVideo,
                    ReasonNoPreviousQuiz, ReasonEligible}) = 6
    /\ Checked =>
          eligibility.result[1].reason
             = FirstFailingGate(eligibility.eventId, eligibility.language)

\* a ready video without a series and without a quiz got the reason of the
\* series gate
C19_Witness ==
    /\ Checked
    /\ ExistsAndReady(eligibility.eventId)
    /\ ~HasSeries(eligibility.eventId)
    /\ ~HasQuiz(eligibility.eventId, eligibility.language)
    /\ eligibility.result[1].reason = ReasonNoSeries

\* video e is ready, in a series and no ready video of the series is
\* positioned before it
FirstOfSeries(e) == ExistsAndReady(e) /\ HasSeries(e) /\ Predecessors(e) = {}

\* C20 as stated: the first ready video of a series is ineligible with the
\* first-video reason, whether or not it has an individual quiz.
C20_FirstVideoAlwaysFirstReason ==
    (Checked /\ FirstOfSeries(eligibility.eventId))
        => /\ ~eligibility.result[1].eligible
           /\ eligibility.result[1].reason = ReasonFirstVideo

\* C20: the first ready video of a series is always ineligible; the reason is
\* the first-video reason when it has an individual quiz for the language and
\* the reason of the quiz gate when it has none.
C20_FirstVideoIneligible ==
    (Checked /\ FirstOfSeries(eligibility.eventId))
        => /\ ~eligibility.result[1].eligible
           /\ eligibility.result[1].reason =
                 IF HasQuiz(eligibility.eventId, eligibility.language)
                 THEN ReasonFirstVideo ELSE ReasonNoQuiz

\* the first video of a series with later videos, and with a quiz of its own,
\* was found ineligible
C20_Witness ==
    /\ Checked
    /\ FirstOfSeries(eligibility.eventId)
    /\ HasQuiz(eligibility.eventId, eligibility.language)
    /\ eligibility.result[1].reason = ReasonFirstVideo
    /\ eligibility.result[1].details.totalInSeries = <<2>>

\* C21: an answer of checkEligibility for a video that fails a gate is a
\* result value with eligible = false (status 200), and a call in which a
\* query of the durable store failed is answered with an error (status 500),
\* not with a result value.
C21_StoreFailureSurfacesAsError ==
    \A i \in DOMAIN eligibility.result :
        LET r == eligibility.result[i]
        IN  /\ r.reason \in {ReasonNotFound, ReasonNoSeries, ReasonNoQuiz, ReasonNoPosition,
                             ReasonFirstVideo, ReasonNoPreviousQuiz}
                  => (r.status = 200 /\ ~r.eligible)
            /\ r.reason = ReasonError => r.status = 500

\* the answer a call gives on the tables as they are, written from the
\* tables alone
ExpectedResponse(e, l) ==
    LET reason == FirstFailingGate(e, l)
        positioned == reason \in {ReasonFirstVideo, ReasonNoPreviousQuiz, ReasonEligible}
        total == Cardinality({i \in DOMAIN events :
                                 /\ events[i].series = RowOf(e).series
                                 /\ events[i].state = "ready"})
    IN  [status |-> 200, eventId |-> e, language |-> l,
         eligible |-> reason = ReasonEligible, reason |-> reason,
         details |->
            [position |-> IF positioned THEN <<Cardinality(Predecessors(e)) + 1>> ELSE <<>>,
             totalInSeries |-> IF positioned THEN <<total>> ELSE <<>>,
             previousVideosWithQuizzes |->
                IF positioned
                THEN <<Cardinality({y \in Predecessors(e) : HasQuiz(y, l)})>> ELSE <<>>,
             hasQuiz |-> IF positioned THEN <<TRUE>>
                         ELSE IF reason = ReasonNoQuiz THEN <<FALSE>> ELSE <<>>]]

\* C22: no step of checkEligibility changes all_events, ai_quizzes,
\* ai_cumulative_quizzes or the cache, and the answer of a call whose queries
\* succeed on unchanged data is the one the current rows of all_events and
\* ai_quizzes determine, whatever the cache and ai_cumulative_quizzes hold and
\* whatever the call before answered.
C22_DependsOnVideosAndQuizzesOnly ==
    [][/\ eligibility' # eligibility => UNCHANGED <<events, quizzes, cumulative, cache>>
       /\ (/\ eligibility.pc # "idle" /\ eligibility'.pc = "idle"
           /\ eligibility'.epoch = changes'
           /\ eligibility'.result[1].reason # ReasonError)
          => eligibility'.result[1]
                = ExpectedResponse(eligibility.eventId, eligibility.language)]_vars

\* video 10 was eligible, the quiz of its only predecessor was deleted and
\* the next call found it ineligible, while a cumulative quiz of video 10 is
\* stored and cached
C22_Witness ==
    /\ Checked
    /\ Len(eligibility.result) = 2
    /\ eligibility.result[1].eventId = 10 /\ eligibility.result[2].eventId = 10
    /\ eligibility.result[2].eligible
    /\ eligibility.result[1].reason = ReasonNoPreviousQuiz
    /\ cumulative # {} /\ CacheGet(cache, CumulativeKey(10, "en")) # <<>>

\* the series of the example: videos 2, 3, 10 ready in this order, 2 without
\* a quiz, 3 with the two questions of QuizA, 10 with the three of QuizC
ExampleSeries ==
    /\ Ids(OrderedEvents(events, 1)) = <<2, 3, 10>>
    /\ quizzes[<<2, "en">>] = <<>>
    /\ quizzes[<<3, "en">>] = <<QuizA>>
    /\ quizzes[<<10, "en">>] = <<QuizC>>

\* C23: on the example series, checkEligibility of the second video answers
\* "no previous video has a quiz", checkEligibility of the third answers
\* eligible, and the cumulative quiz generated for the third has the two
\* questions of the second video followed by the three of the third,
\* includedEventIds <<2, 3, 10>> and videoCount 3.
C23_ExampleSeriesOutcome ==
    ExampleSeries =>
        /\ \A i \in DOMAIN eligibility.result :
              LET r == eligibility.result[i]
              IN  r.reason # ReasonError =>
                     /\ r.eventId = 3 => (~r.eligible /\ r.reason = ReasonNoPreviousQuiz)
                     /\ r.eventId = 10 => (r.eligible /\ r.reason = ReasonEligible)
        /\ \A q \in ReturnedQuizzes \cup StoredQuizzes \cup CachedQuizzes :
              q.eventId = 10 =>
                 /\ [i \in DOMAIN q.questions |-> q.questions[i].question]
                       = <<"a1", "a2", "c1", "c2", "c3">>
                 /\ [i \in DOMAIN q.questions |-> q.questions[i].videoContext.eventId]
                       = <<3, 3, 10, 10, 10>>
                 /\ q.includedEventIds = <<2, 3, 10>>
                 /\ q.videoCount = 3

C23_Witness ==
    /\ ExampleSeries
    /\ Checked
    /\ eligibility.result[1].eventId = 3
    /\ eligibility.result[1].reason = ReasonNoPreviousQuiz
    /\ Answered("p1")
    /\ outcome["p1"].kind = "generated"
    /\ outcome["p1"].request.eventId = 10
    /\ Len(outcome["p1"].quiz[1].questions) = 5

\* the number of questions of the individual quiz of m that carry an answer
AnswerableQuestions(m, l) ==
    IF quizzes[<<m, l>>] = <<>> THEN 0
    ELSE Cardinality({i \in DOMAIN quizzes[<<m, l>>][1].questions :
                         CorrectAnswerOf(quizzes[<<m, l>>][1].questions[i]) # <<>>})

\* C24: generateCumulativeQuiz runs no eligibility check.  For a ready anchor
\* with a series the only way it fails is a failing query; when it generates,
\* the quiz lists and counts every resolved member, a member without an
\* individual quiz contributes no question, and the record is stored, whether
\* or not checkEligibility calls the anchor eligible.
C24_GenerateIgnoresEligibility ==
    \A p \in Procs :
        LET o == outcome[p]
            e == o.request.eventId
            l == o.request.language
        IN  (o.kind # "none" /\ ExistsAndReady(e) /\ HasSeries(e)) =>
               /\ o.kind = "error" => o.error \in {"query failed", "upsert failed"}
               /\ o.kind = "generated" =>
                     LET q == o.quiz[1]
                         members == GetSeriesEventsUpTo(events, RowOf(e).series, e)
                     IN  /\ q.includedEventIds = Ids(members)
                         /\ q.videoCount = Len(members)
                         /\ \A m \in Range(Ids(members)) :
                               Cardinality({i \in DOMAIN q.questions :
                                               q.questions[i].videoContext.eventId = m})
                                  = AnswerableQuestions(m, l)
                         /\ \E stored \in StoredQuizzes : SameContent(stored, q)

C24_Witness ==
    /\ Checked
    /\ eligibility.result[1].eventId = 10
    /\ eligibility.result[1].reason = ReasonNoQuiz
    /\ Answered("p1")
    /\ outcome["p1"].kind = "generated"
    /\ outcome["p1"].request.eventId = 10
    /\ outcome["p1"].quiz[1].includedEventIds = <<2, 3, 10>>
    /\ outcome["p1"].quiz[1].videoCount = 3
    /\ Len(outcome["p1"].quiz[1].questions) = 2
    /\ outcome["p1"].quiz[1] \in StoredQuizzes

\* the anchor of the call of p is not a ready video with a series
AnchorMissing(p) ==
    ~(ExistsAndReady(req[p].eventId) /\ HasSeries(req[p].eventId))

\* C25: a generate call whose anchor does not exist, is not ready or has no
\* series ends at its event query: it goes on to no further step, starts no
\* new attempt, its caller gets the error "Event not found or not part of a
\* series" (or the error of the failed query), and from its start to its end
\* no step changes ai_cumulative_quizzes.
C25_MissingAnchorFailsWithoutWriting ==
    [][\A p \in Procs :
          /\ (pc[p] = "eventQuery" /\ AnchorMissing(p) /\ pc'[p] # pc[p]) =>
                 /\ pc'[p] = "idle"
                 /\ outcome'[p].kind = "error"
                 /\ outcome'[p].request = req[p]
                 /\ outcome'[p].error \in {"Event not found or not part of a series",
                                            "query failed"}
                 /\ calls' = calls
          /\ (pc[p] \in {"idle", "cacheGet", "dbGet", "reCache", "validate", "eventQuery"}
                 /\ AnchorMissing(p) /\ pc'[p] # pc[p])
                => cumulative' = cumulative]_vars

C25_Witness ==
    /\ Answered("p1")
    /\ outcome["p1"].error = "Event not found or not part of a series"
    /\ outcome["p1"].request.eventId = 3
    /\ ~outcome["p1"].request.forceRegenerate
    /\ RowOf(3).state = "waiting"
    /\ validation["p1"].ran
    /\ cumulative = UpsertCumulative({}, AnchorQuiz)

\* the texts of the questions of a list
Texts(qs) == [i \in DOMAIN qs |-> qs[i].question]

\* C26: when the last of the concurrent per-video fetches of a call resolves,
\* whichever it is, the combined list has the questions of an earlier
\* resolved video before those of a later one, and the questions of one video
\* in the order of its individual quiz, whatever their difficulty.
C26_OrderedByPositionThenQuizOrder ==
    [][\A p \in Procs :
          (quiz[p] = <<>> /\ quiz'[p] # <<>>) =>
             LET q == quiz'[p][1].questions
                 evs == seriesEvents[p]
                 PositionOf(id) == CHOOSE k \in DOMAIN evs : evs[k].id = id
             IN  /\ \A i, j \in DOMAIN q :
                       i < j => PositionOf(q[i].videoContext.eventId)
                                   <= PositionOf(q[j].videoContext.eventId)
                 /\ \A k \in DOMAIN evs :
                       Texts(SelectSeq(q, LAMBDA x : x.videoContext.eventId = evs[k].id))
                          = Texts(SelectSeq(individual'[p][k][1].questions,
                                            LAMBDA x : CorrectAnswerOf(x) # <<>>))]_vars

C26_Witness ==
    /\ pc["p1"] = "saveDb"
    /\ Ids(seriesEvents["p1"]) = <<2, 3, 10>>
    /\ Texts(quiz["p1"][1].questions) = <<"a1", "a2", "a1", "a2", "c1", "c2", "c3">>
    /\ [i \in DOMAIN quiz["p1"][1].questions |-> quiz["p1"][1].questions[i].difficulty]
          = <<"hard", "easy", "hard", "easy", "easy", "hard", "medium">>

\* the questions the fetches of a call delivered, as pairs of the index of
\* the video and the index of the question in its quiz
FetchedQuestions(got) ==
    {ki \in (DOMAIN got) \X (1..3) : ki[2] \in DOMAIN got[ki[1]][1].questions}

BuiltQuizzes == {quiz[p][1] : p \in {c \in Procs : quiz[c] # <<>>}}

\* C28: in every cumulative quiz that is built, returned, stored or cached,
\* the video of each question is one of includedEventIds and the question's
\* videoNumber is the 1-based index of that video in includedEventIds.
C28_VideoNumberIsIndexInIncludedIds ==
    \A q \in BuiltQuizzes \cup ReturnedQuizzes \cup StoredQuizzes \cup CachedQuizzes :
        \A i \in DOMAIN q.questions :
            LET c == q.questions[i].videoContext
            IN  /\ c.eventId \in Range(q.includedEventIds)
                /\ c.videoNumber \in DOMAIN q.includedEventIds
                /\ q.includedEventIds[c.videoNumber] = c.eventId

C28_Witness ==
    /\ RowOf(2).order = <<2>>
    /\ \E q \in StoredQuizzes \cap ReturnedQuizzes :
          /\ q.includedEventIds = <<2, 10>>
          /\ \E i, j \in DOMAIN q.questions :
                /\ q.questions[i].videoContext.eventId = 2
                /\ q.questions[i].videoContext.videoNumber = 1
                /\ q.questions[j].videoContext.eventId = 10
                /\ q.questions[j].videoContext.videoNumber = 2

\* C29: get(key) is null for a key never set, after invalidate(key), after
\* clear() and once the TTL given to the latest set has elapsed; otherwise it
\* is the value of the latest set of the key.
C29_GetReturnsLatestLiveSet ==
    \A k \in CacheKeys :
        CacheGet(cache, k) =
            IF lastSet[k] = <<>> THEN <<>>
            ELSE IF lastSet[k][1].removed \/ lastSet[k][1].age >= lastSet[k][1].ttl THEN <<>>
            ELSE <<lastSet[k][1].value>>

C29_Witness ==
    LET live == CumulativeKey(10, "en")
        gone == CumulativeKey(3, "en")
    IN  /\ lastSet[live] # <<>> /\ lastSet[gone] # <<>>
        /\ lastSet[live][1].ttl = 2 /\ lastSet[live][1].age = 1 /\ ~lastSet[live][1].removed
        /\ CacheGet(cache, live) = <<lastSet[live][1].value>>
        /\ lastSet[gone][1].age = lastSet[gone][1].ttl /\ ~lastSet[gone][1].removed
        /\ CacheGet(cache, gone) = <<>>

\* C30: bulk series generation with cumulative_quiz requested and the quiz
\* feature enabled takes the videos in the resolved order of the series, and
\* at the point where it decides for a video whether a cumulative quiz may be
\* generated, it allows it exactly when checkEligibility on the data of that
\* moment reports the video eligible.
C30_BulkDecisionAgreesWithEligibility ==
    [][\A e \in EventIds, l \in Languages :
          (/\ bulk.pc \in {"quiz", "quizGenerate"}
           /\ "cumulative_quiz" \in bulk.contentTypes
           /\ bulk.quizEnabled
           /\ bulk.videos[bulk.i].id = e
           /\ bulk.language = l
           /\ \/ bulk'.pc = "cumulativeExisting"
              \/ Len(bulk'.results) > Len(bulk.results))
          => /\ OrderedEvents(events, bulk.seriesId)[bulk.i].id = e
             /\ (bulk'.pc = "cumulativeExisting") <=> (ExpectedResponse(e, l).eligible)']_vars

\* C31: in a quiz that has just been built, every question whose source
\* carries a timestamp, 0 included, has that timestamp in its videoContext,
\* and a question has none only when its source has none.
C31_TimestampKept ==
    \A p \in Procs :
        (pc[p] = "saveDb" /\ quiz[p] # <<>>) =>
           \A ki \in FetchedQuestions(individual[p]) :
              LET source == individual[p][ki[1]][1].questions[ki[2]]
              IN  \A j \in DOMAIN quiz[p][1].questions :
                     LET c == quiz[p][1].questions[j]
                     IN  (/\ c.question = source.question
                          /\ c.videoContext.eventId = seriesEvents[p][ki[1]].id)
                            => c.videoContext.timestamp = source.timestamp

\* C32: when a non-forced generate validates a stored quiz whose member set
\* is the set the resolver returns now, only in another order, and the
\* resolver query succeeds, isCacheValid returns true and the call returns
\* that quiz as it was stored (old question order, old videoNumber values),
\* writing neither the store nor the cache.
C32_ReorderKeepsStoredQuiz ==
    [][\A p \in Procs :
          (/\ pc[p] = "validate" /\ pc'[p] # "validate"
           /\ ~validation'[p].failed
           /\ LET now == Ids(GetSeriesEventsUpTo(events, cached[p][1].seriesId,
                                                 cached[p][1].eventId))
              IN  /\ Range(now) = Range(cached[p][1].includedEventIds)
                  /\ now # cached[p][1].includedEventIds)
            => /\ validation'[p].valid
               /\ pc'[p] = "idle"
               /\ outcome'[p].kind = "cached"
               /\ outcome'[p].quiz = cached[p]
               /\ cumulative' = cumulative /\ cache' = cache]_vars

\* the quiz built over 2, 3, 10 was returned after 3 had moved before 2; its
\* first question still says video number 1 of video 2
C32_Witness ==
    /\ Answered("p1") /\ outcome["p1"].kind = "cached"
    /\ outcome["p1"].quiz[1].includedEventIds = <<2, 3, 10>>
    /\ validation["p1"].currentEventIds = <<3, 2, 10>>
    /\ Ids(GetSeriesEventsUpTo(events, 1, 10)) = <<3, 2, 10>>
    /\ outcome["p1"].quiz[1].questions[1].videoContext.eventId = 2
    /\ outcome["p1"].quiz[1].questions[1].videoContext.videoNumber = 1
    /\ \E r \in cumulative : QuizOfRow(r) = outcome["p1"].quiz[1]

\* C33: GET /api/cumulative-quizzes/:eventId answers with the fast-cache
\* entry of the key when there is one, and otherwise with the durable record
\* when the query finds one, re-caching it; isCacheValid is not run, so the
\* record is returned as stored also when the series prefix has changed.
C33_GetServesStoredUnchecked ==
    [][\A p \in Procs :
          /\ (pc[p] = "getCache" /\ pc'[p] # "getCache" /\ CacheGet(cache, Key(p)) # <<>>)
                => /\ pc'[p] = "idle"
                   /\ outcome'[p].kind = "found"
                   /\ outcome'[p].quiz = CacheGet(cache, Key(p))
          /\ (/\ pc[p] = "getDb" /\ pc'[p] # "getDb"
              /\ CumulativeRows(cumulative, req[p].eventId, req[p].language) # {}
              /\ ~(pc'[p] = "idle" /\ outcome'[p].kind = "error"))
                => /\ pc'[p] = "getReCache"
                   /\ \E r \in CumulativeRows(cumulative, req[p].eventId, req[p].language) :
                         cached'[p] = <<QuizOfRow(r)>>
          /\ (pc[p] = "getReCache" /\ pc'[p] # "getReCache")
                => /\ pc'[p] = "idle"
                   /\ outcome'[p].kind = "found"
                   /\ outcome'[p].quiz = cached[p]
                   /\ CacheGet(cache', Key(p)) = cached[p]
          /\ (pc[p] \in {"getCache", "getDb", "getReCache"} /\ pc'[p] # pc[p])
                => /\ validation'[p] = NoValidation
                   /\ cumulative' = cumulative]_vars

\* the read returned the quiz over <<2, 10>> after video 3 had become a ready
\* member before 10: the record is stale, and still the stored one
C33_Witness ==
    /\ pc["p2"] = "idle" /\ outcome["p2"].kind = "found"
    /\ outcome["p2"].quiz[1].includedEventIds = <<2, 10>>
    /\ Ids(GetSeriesEventsUpTo(events, 1, 10)) = <<2, 3, 10>>
    /\ ~IsCacheValid(events, outcome["p2"].quiz[1])
    /\ outcome["p2"].request.epoch = changes
    /\ \E r \in cumulative : QuizOfRow(r) = outcome["p2"].quiz[1]

\* C34: whenever no generate call is in progress, a key that has both a
\* fast-cache entry and a durable record has the same seriesId,
\* includedEventIds and questions in both.
C34_CacheAgreesWithStore ==
    (\A p \in Procs : pc[p] = "idle") =>
        \A e \in EventIds, l \in Languages :
            \A r \in CumulativeRows(cumulative, e, l) :
                LET hit == CacheGet(cache, CumulativeKey(e, l))
                IN  hit # <<>> =>
                       /\ hit[1].seriesId = r.series_id
                       /\ hit[1].includedEventIds = r.included_event_ids
                       /\ hit[1].questions = r.questions

\* C35: when the upsert of saveCumulativeQuiz fails, the call ends with that
\* error as its result, and the step changes neither the fast cache nor the
\* durable store: the cache entry of the key is what it was before the save.
C35_FailedUpsertLeavesCache ==
    [][\A p \in Procs :
          (pc[p] = "saveDb" /\ pc'[p] = "idle") =>
              /\ outcome'[p].kind = "error"
              /\ outcome'[p].error = "upsert failed"
              /\ outcome'[p].request = req[p]
              /\ cache' = cache
              /\ cumulative' = cumulative]_vars

\* the regeneration of the stale quiz over <<2, 10>> failed at the upsert:
\* cache and store still hold the old quiz
C35_Witness ==
    /\ Answered("p1") /\ outcome["p1"].error = "upsert failed"
    /\ validation["p1"].ran /\ ~validation["p1"].valid
    /\ validation["p1"].currentEventIds = <<2, 3, 10>>
    /\ CacheGet(cache, CumulativeKey(10, "en")) # <<>>
    /\ CacheGet(cache, CumulativeKey(10, "en"))[1].includedEventIds = <<2, 10>>
    /\ \E r \in cumulative : r.included_event_ids = <<2, 10>>

\* the anchor of call p is now a ready member of the series step 2 read
AnchorInSeries(p) ==
    \E i \in DOMAIN events :
        /\ events[i].id = req[p].eventId
        /\ events[i].state = "ready"
        /\ events[i].series = seriesId[p]

\* C36: step 2 goes on only with the anchor a ready member of the series it
\* read; step 3 fails with 'No events found in series' only when the anchor
\* is no longer one, which takes a change of the data during the call; when
\* the anchor still is one and the query succeeds, the resolved rows are not
\* empty and end with the anchor.
C36_EmptyPrefixNeedsInterleavedChange ==
    [][\A p \in Procs :
          /\ (pc[p] = "eventQuery" /\ pc'[p] = "resolve") => AnchorInSeries(p)'
          /\ (/\ pc[p] = "resolve" /\ pc'[p] = "idle"
              /\ outcome'[p].error = "No events found in series")
                => /\ ~AnchorInSeries(p)
                   /\ changes > req[p].epoch
          /\ (/\ pc[p] = "resolve" /\ pc'[p] # "resolve" /\ AnchorInSeries(p)
              /\ ~(pc'[p] = "idle" /\ outcome'[p].error = "query failed"))
                => /\ pc'[p] = "fetch"
                   /\ seriesEvents'[p] # <<>>
                   /\ seriesEvents'[p][Len(seriesEvents'[p])].id = req[p].eventId]_vars

\* video 10 was taken out of the ready members after step 2 of the call
C36_Witness ==
    /\ Answered("p1") /\ outcome["p1"].error = "No events found in series"
    /\ outcome["p1"].request.eventId = 10
    /\ changes > outcome["p1"].request.epoch
    /\ ~ExistsAndReady(10) \/ RowOf(10).series # 1

\* C37: on data that does not change, when the latest eligibility answer for
\* a video reports position p of n and a forced generate for the same video
\* and language has returned a quiz, the quiz's videoCount is p and p <= n.
C37_VideoCountIsEligibilityPosition ==
    (/\ eligibility.pc = "idle" /\ eligibility.result # <<>>
     /\ eligibility.result[1].details.position # <<>>
     /\ Answered("p1") /\ outcome["p1"].kind = "generated"
     /\ outcome["p1"].request.forceRegenerate
     /\ outcome["p1"].request.eventId = eligibility.result[1].eventId
     /\ outcome["p1"].request.language = eligibility.result[1].language
     /\ changes = 0)
       => /\ outcome["p1"].quiz[1].videoCount = eligibility.result[1].details.position[1]
          /\ eligibility.result[1].details.position[1]
                <= eligibility.result[1].details.totalInSeries[1]

\* C38: when the bulk run with forceRegenerate = false finds a record of
\* ai_cumulative_quizzes for the video, the step pushes the operation
\* 'Already exists' with success true and goes on to the next video: it does
\* not call generateCumulativeQuiz and changes neither the record nor the
\* cache, also when the record's includedEventIds are not the current prefix.
C38_BulkKeepsExistingRecord ==
    [][(/\ bulk.pc = "cumulativeExisting" /\ bulk'.pc # "cumulativeExisting"
        /\ ~bulk.forceRegenerate
        /\ CumulativeRows(cumulative, bulk.videos[bulk.i].id, bulk.language) # {}
        /\ ~(/\ Len(bulk'.results) > Len(bulk.results)
              /\ LET ops == bulk'.results[Len(bulk'.results)].operations
                 IN  ops[Len(ops)].message = "query failed"))
         => LET ops == bulk'.results[Len(bulk'.results)].operations
            IN  /\ Len(bulk'.results) > Len(bulk.results)
                /\ ops[Len(ops)] = Operation("cumulative_quiz", TRUE, "Already exists")
                /\ calls' = calls
                /\ pc' = pc
                /\ cumulative' = cumulative
                /\ cache' = cache]_vars

\* the run has answered 'Already exists' for video 10, whose record over
\* <<2, 10>> is not the current prefix <<2, 3, 10>>; nothing has called
\* generateCumulativeQuiz
C38_Witness ==
    /\ bulk.pc = "idle" /\ bulk.status = 200 /\ ~bulk.forceRegenerate
    /\ calls = 0
    /\ \E k \in DOMAIN bulk.results :
          /\ bulk.results[k].eventId = 10
          /\ \E o \in DOMAIN bulk.results[k].operations :
                bulk.results[k].operations[o] = Operation("cumulative_quiz", TRUE, "Already exists")
    /\ \E r \in CumulativeRows(cumulative, 10, "en") :
          /\ r.included_event_ids = <<2, 10>>
          /\ ~IsCacheValid(events, QuizOfRow(r))
    /\ Ids(GetSeriesEventsUpTo(events, 1, 10)) = <<2, 3, 10>>

\* C39: a fast-cache entry quiz:{video}:{language} holds the quiz content of
\* the ai_quizzes row of the video and language, whenever both exist.
C39_QuizCacheMatchesStore ==
    \A e \in EventIds, l \in Languages :
        LET hit == CacheGet(cache, QuizKey(e, l))
        IN  (hit # <<>> /\ quizzes[<<e, l>>] # <<>>) => hit[1].quiz = quizzes[<<e, l>>][1]

\* the text is one that may be stored: present and longer than 100 characters
LongEnough(text) == text # <<>> /\ text[1].length > MinTranscriptLength

\* C40: when extractForEvent returns, success is true only if the returning
\* step upserted, for the event and the normalized language, a text longer
\* than 100 characters: the one of event_texts when that is long enough, and
\* otherwise the one of the caption file.  When neither source gave such a
\* text, or a query of the call failed, success is false; and a call that
\* returns success false has written no transcript at any step.
C40_SuccessIffTranscriptStored ==
    [][/\ (extraction.pc # "idle" /\ extraction'.pc = "idle") =>
            LET r == extraction'.result[1]
                fromTexts == extraction'.eventTextCaption
                fromFile == extraction'.parsed
                content == IF LongEnough(fromTexts) THEN fromTexts ELSE fromFile
            IN  /\ r.language = extraction.language[1]
                /\ r.success =>
                      /\ LongEnough(content)
                      /\ transcripts' = UpsertTranscript(
                                            transcripts, extraction.eventId, r.language,
                                            content[1],
                                            IF LongEnough(fromTexts) THEN "event_texts"
                                            ELSE "captions_array")
                      /\ r.transcriptLength = <<content[1].length>>
                /\ ((~LongEnough(fromTexts) /\ ~LongEnough(fromFile)) \/ extraction'.storeError)
                      => ~r.success
                /\ ~r.success => transcripts' = transcripts
       /\ (extraction.pc # "idle" /\ extraction'.pc # "idle") => transcripts' = transcripts]_vars
====
